---- MODULE Spec2Model ----
(***************************************************************************)
(* Model of the science helper scripts of lhs-junior/flux:                 *)
(*   helpers/ml_helper.py      model registry and its handlers             *)
(*   helpers/stats_helper.py   statistical tests, effect sizes, p-values   *)
(*   helpers/export_helper.py  export router                               *)
(*   python/analyze_helper.py  load / transform pipeline and its router    *)
(*   python/visualize_helper.py chart router                               *)
(*                                                                         *)
(* Python values are modelled as follows.  A dict is a function whose      *)
(* DOMAIN is its key set, so d['k'] raises KeyError exactly when           *)
(* "k" \notin DOMAIN d and d.get('k', v) is Get(d, "k", v).  None is the   *)
(* record None.  An f-string is the tuple of its parts.  A fitted library  *)
(* object (estimator, scaler, encoder) is the record of what it was fitted *)
(* on: fitting is deterministic (random_state=42), so two objects fitted   *)
(* on the same inputs are interchangeable.  A library call that may raise  *)
(* is resolved by an input flag (lib, io) chosen by the environment.       *)
(***************************************************************************)
EXTENDS Integers, Sequences, FiniteSets, TLC

VARIABLES
    model_manager,  \* ml_helper: the global ModelManager (models, scalers, encoders, metadata)
    files,          \* the filesystem: filepath -> content of the pickle file
    input_data,     \* the request being (or last) handled: [action/test/type/chart_type, data]
    result,         \* the response built for input_data
    trained         \* history: the model ids a train or load has succeeded for

----------------------------------------------------------------------------
(* Python values *)

None == [cls |-> "NoneType"]

EmptyDict == [k \in {} |-> None]

\* d.get(key, default)
Get(d, key, default) == IF key \in DOMAIN d THEN d[key] ELSE default

\* d[key] = value
Put(d, key, value) ==
    [k \in DOMAIN d \cup {key} |-> IF k = key THEN value ELSE d[k]]

\* {**f, **g}
Merge(f, g) ==
    [k \in DOMAIN f \cup DOMAIN g |-> IF k \in DOMAIN g THEN g[k] ELSE f[k]]

\* bool(v) of an object, None or a dict
Truthy(v) == v # None /\ v # EmptyDict

\* str(KeyError(key))
KeyError(key) == <<"'", key, "'">>

\* A failure that carries a payload
Failure_with_payload(message) ==
    [success |-> FALSE, error |-> message, result |-> [cls |-> "NoneType"]]

\* {'success': False, 'error': str(e)}
Failure(message) == [success |-> FALSE, error |-> message]

----------------------------------------------------------------------------
(* ml_helper.py: ModelManager *)

\* A registry that holds a model before any request
ModelManager_preloaded ==
    [models |-> [k \in {"m1"} |-> [cls |-> "LinearRegression"]],
     scalers |-> [k \in {} |-> [cls |-> "NoneType"]],
     encoders |-> [k \in {} |-> [cls |-> "NoneType"]],
     metadata |-> [k \in {"m1"} |-> [algorithm |-> "linear_regression",
                                     task_type |-> "regression"]]]

ModelManager == [models |-> EmptyDict, scalers |-> EmptyDict,
                 encoders |-> EmptyDict, metadata |-> EmptyDict]

\* A save_model that starts each dict anew
save_model_replacing(mm, model_id, model, scaler, encoder, metadata) ==
    [models   |-> [k \in {model_id} |-> model],
     scalers  |-> IF Truthy(scaler) THEN [k \in {model_id} |-> scaler] ELSE EmptyDict,
     encoders |-> IF Truthy(encoder) THEN [k \in {model_id} |-> encoder] ELSE EmptyDict,
     metadata |-> IF Truthy(metadata) THEN [k \in {model_id} |-> metadata]
                  ELSE EmptyDict]

\* A save_model that stores the companions and not the model
save_model_companions_only(mm, model_id, model, scaler, encoder, metadata) ==
    [models   |-> mm.models,
     scalers  |-> IF Truthy(scaler) THEN Put(mm.scalers, model_id, scaler)
                  ELSE mm.scalers,
     encoders |-> IF Truthy(encoder) THEN Put(mm.encoders, model_id, encoder)
                  ELSE mm.encoders,
     metadata |-> IF Truthy(metadata) THEN Put(mm.metadata, model_id, metadata)
                  ELSE mm.metadata]

save_model(mm, model_id, model, scaler, encoder, metadata) ==
    [models   |-> Put(mm.models, model_id, model),
     scalers  |-> IF Truthy(scaler) THEN Put(mm.scalers, model_id, scaler)
                  ELSE mm.scalers,
     encoders |-> IF Truthy(encoder) THEN Put(mm.encoders, model_id, encoder)
                  ELSE mm.encoders,
     metadata |-> IF Truthy(metadata) THEN Put(mm.metadata, model_id, metadata)
                  ELSE mm.metadata]

get_model(mm, model_id) == Get(mm.models, model_id, None)

get_scaler(mm, model_id) == Get(mm.scalers, model_id, None)

get_encoder(mm, model_id) == Get(mm.encoders, model_id, None)

\* A registry that never has metadata to give
get_metadata_absent(mm, model_id) == [cls |-> "NoneType"]

get_metadata(mm, model_id) == Get(mm.metadata, model_id, None)

----------------------------------------------------------------------------
(* ml_helper.py: library objects *)

\* The closed enumeration of create_model
Algorithms == {"linear_regression", "logistic_regression", "random_forest",
               "xgboost", "svm", "kmeans"}

\* The library outcomes the environment chooses between:
\*   ok           every library call returns
\*   pre_raises   a call before create_model raises (train_test_split, scaler or
\*                encoder fitting)
\*   no_xgboost   the xgboost package is not installed
\*   post_raises  a call after create_model raises (fit, predict, the metrics,
\*                the grid search)
Lib == {"ok", "pre_raises", "no_xgboost", "post_raises"}

LibraryError(where) == <<"library error in ", where>>

StandardScaler(X) == [cls |-> "StandardScaler", fitted_on |-> X]

LabelEncoder(y) == [cls |-> "LabelEncoder", fitted_on |-> y]

\* The estimator class create_model instantiates, or the exception it raises
\* A factory that answers every tag
create_model_open(algorithm, task_type, lib) ==
    [raised |-> FALSE, cls |-> "LinearRegression"]

create_model(algorithm, task_type, lib) ==
    IF algorithm = "linear_regression" THEN [raised |-> FALSE, cls |-> "LinearRegression"]
    ELSE IF algorithm = "logistic_regression" THEN [raised |-> FALSE, cls |-> "LogisticRegression"]
    ELSE IF algorithm = "random_forest" THEN
        IF task_type = "classification"
        THEN [raised |-> FALSE, cls |-> "RandomForestClassifier"]
        ELSE [raised |-> FALSE, cls |-> "RandomForestRegressor"]
    ELSE IF algorithm = "xgboost" THEN
        IF lib = "no_xgboost"
        THEN [raised |-> TRUE,
              error |-> <<"XGBoost not installed. Install with: pip install xgboost">>]
        ELSE IF task_type = "classification"
        THEN [raised |-> FALSE, cls |-> "XGBClassifier"]
        ELSE [raised |-> FALSE, cls |-> "XGBRegressor"]
    ELSE IF algorithm = "svm" THEN
        IF task_type = "classification"
        THEN [raised |-> FALSE, cls |-> "SVC"]
        ELSE [raised |-> FALSE, cls |-> "SVR"]
    ELSE IF algorithm = "kmeans" THEN [raised |-> FALSE, cls |-> "KMeans"]
    ELSE [raised |-> TRUE, error |-> <<"Unknown algorithm: ", algorithm>>]

\* model.fit(X_train, y_train): the estimator with what it was fitted on
Fit(cls, X, scaler, y, encoder) ==
    [cls |-> cls,
     X_train |-> [data |-> X, scaler |-> scaler],
     y_train |-> [data |-> y, encoder |-> encoder]]

----------------------------------------------------------------------------
(* ml_helper.py: handlers.  Each returns the manager it leaves and its result. *)

train(mm, data, lib) ==
    IF "X" \notin DOMAIN data THEN [mm |-> mm, result |-> Failure(KeyError("X"))]
    ELSE IF "y" \notin DOMAIN data THEN [mm |-> mm, result |-> Failure(KeyError("y"))]
    ELSE IF "algorithm" \notin DOMAIN data
    THEN [mm |-> mm, result |-> Failure(KeyError("algorithm"))]
    ELSE
    LET X == data.X
        y == data.y
        algorithm == data.algorithm
        task_type == Get(data, "task_type", "regression")
        model_id == Get(data, "model_id", "default_model")
        scale == Get(data, "scale", FALSE)
        scaler == IF scale THEN StandardScaler(X) ELSE None
        encoder == IF task_type = "classification" THEN LabelEncoder(y) ELSE None
        created == create_model(algorithm, task_type, lib)
        model == Fit(created.cls, X, scaler, y, encoder)
        metrics == [task_type |-> task_type, model |-> model]
        metadata == [algorithm |-> algorithm, task_type |-> task_type, fitted_on |-> X]
    IN  IF lib = "pre_raises"
        THEN [mm |-> mm, result |-> Failure(LibraryError("train"))]
        ELSE IF created.raised
        THEN [mm |-> mm, result |-> Failure(created.error)]
        ELSE IF lib = "post_raises"
        THEN [mm |-> mm, result |-> Failure(LibraryError("fit"))]
        ELSE [mm |-> save_model(mm, model_id, model, scaler, encoder, metadata),
              result |-> [success |-> TRUE, model_id |-> model_id,
                          algorithm |-> algorithm, task_type |-> task_type,
                          metrics |-> metrics]]

\* predict without the check that the model exists
predict_unchecked(mm, data, lib) ==
    IF "X" \notin DOMAIN data THEN [mm |-> mm, result |-> Failure(KeyError("X"))]
    ELSE IF "model_id" \notin DOMAIN data
    THEN [mm |-> mm, result |-> Failure(KeyError("model_id"))]
    ELSE IF lib # "ok" \/ get_model(mm, data.model_id) = None
    THEN [mm |-> mm, result |-> Failure(LibraryError("predict"))]
    ELSE [mm |-> mm,
          result |-> [success |-> TRUE,
                      predictions |-> [model |-> get_model(mm, data.model_id),
                                       X |-> data.X,
                                       scaler |-> get_scaler(mm, data.model_id),
                                       encoder |-> get_encoder(mm, data.model_id)]]]

predict(mm, data, lib) ==
    IF "X" \notin DOMAIN data THEN [mm |-> mm, result |-> Failure(KeyError("X"))]
    ELSE IF "model_id" \notin DOMAIN data
    THEN [mm |-> mm, result |-> Failure(KeyError("model_id"))]
    ELSE
    LET model_id == data.model_id
        model == get_model(mm, model_id)
        scaler == get_scaler(mm, model_id)
        encoder == get_encoder(mm, model_id)
    IN  IF model = None
        THEN [mm |-> mm, result |-> Failure(<<"Model not found: ", model_id>>)]
        ELSE IF lib # "ok"
        THEN [mm |-> mm, result |-> Failure(LibraryError("predict"))]
        ELSE [mm |-> mm,
              result |-> [success |-> TRUE,
                          predictions |-> [model |-> model, X |-> data.X,
                                           scaler |-> scaler, encoder |-> encoder]]]

evaluate(mm, data, lib) ==
    IF "X" \notin DOMAIN data THEN [mm |-> mm, result |-> Failure(KeyError("X"))]
    ELSE IF "y" \notin DOMAIN data THEN [mm |-> mm, result |-> Failure(KeyError("y"))]
    ELSE IF "model_id" \notin DOMAIN data
    THEN [mm |-> mm, result |-> Failure(KeyError("model_id"))]
    ELSE
    LET model_id == data.model_id
        model == get_model(mm, model_id)
        metadata == get_metadata(mm, model_id)
        scaler == get_scaler(mm, model_id)
        encoder == get_encoder(mm, model_id)
    IN  IF model = None
        THEN [mm |-> mm, result |-> Failure(<<"Model not found: ", model_id>>)]
        ELSE IF metadata = None
        THEN [mm |-> mm,
              result |-> Failure(<<"'NoneType' object has no attribute 'get'">>)]
        ELSE IF lib # "ok"
        THEN [mm |-> mm, result |-> Failure(LibraryError("evaluate"))]
        ELSE [mm |-> mm,
              result |-> [success |-> TRUE,
                          metrics |-> [task_type |-> Get(metadata, "task_type", "regression"),
                                       model |-> model, X |-> data.X, y |-> data.y,
                                       scaler |-> scaler, encoder |-> encoder]]]

\* tune that keeps the best estimator of a successful search in the registry
tune_storing(mm, data, lib) ==
    IF {"X", "y", "algorithm", "param_grid"} \subseteq DOMAIN data
       /\ lib = "ok" /\ data.algorithm \in Algorithms
    THEN [mm |-> save_model(mm, "tuned_model",
                            Fit(create_model(data.algorithm,
                                             Get(data, "task_type", "regression"), lib).cls,
                                data.X, None, data.y, None),
                            None, None, [algorithm |-> data.algorithm]),
          result |-> [success |-> TRUE,
                      best_params |-> [cls |-> "best", param_grid |-> data.param_grid]]]
    ELSE [mm |-> mm, result |-> Failure(LibraryError("tune"))]

tune(mm, data, lib) ==
    IF "X" \notin DOMAIN data THEN [mm |-> mm, result |-> Failure(KeyError("X"))]
    ELSE IF "y" \notin DOMAIN data THEN [mm |-> mm, result |-> Failure(KeyError("y"))]
    ELSE IF "algorithm" \notin DOMAIN data
    THEN [mm |-> mm, result |-> Failure(KeyError("algorithm"))]
    ELSE IF "param_grid" \notin DOMAIN data
    THEN [mm |-> mm, result |-> Failure(KeyError("param_grid"))]
    ELSE
    LET task_type == Get(data, "task_type", "regression")
        created == create_model(data.algorithm, task_type, lib)
    IN  IF lib = "pre_raises"
        THEN [mm |-> mm, result |-> Failure(LibraryError("tune"))]
        ELSE IF created.raised
        THEN [mm |-> mm, result |-> Failure(created.error)]
        ELSE IF lib = "post_raises"
        THEN [mm |-> mm, result |-> Failure(LibraryError("grid_search"))]
        ELSE [mm |-> mm,
              result |-> [success |-> TRUE,
                          best_params |-> [cls |-> created.cls,
                                           param_grid |-> data.param_grid]]]

explain(mm, data) ==
    IF "model_id" \notin DOMAIN data
    THEN [mm |-> mm, result |-> Failure(KeyError("model_id"))]
    ELSE
    LET model_id == data.model_id
        model == get_model(mm, model_id)
        metadata == get_metadata(mm, model_id)
    IN  IF model = None
        THEN [mm |-> mm, result |-> Failure(<<"Model not found: ", model_id>>)]
        ELSE IF metadata = None
        THEN [mm |-> mm,
              result |-> Failure(<<"'NoneType' object has no attribute 'get'">>)]
        ELSE [mm |-> mm,
              result |-> [success |-> TRUE, model_id |-> model_id,
                          algorithm |-> Get(metadata, "algorithm", None),
                          task_type |-> Get(metadata, "task_type", None),
                          model_params |-> model.cls,
                          metadata |-> metadata]]

\* The content of a file that pickle cannot load (a dump that failed midway)
Corrupt == [cls |-> "Corrupt"]

\* The outcomes of writing a file: written, open() raises, pickle.dump raises
Io == {"ok", "open_raises", "dump_raises"}

save_model_to_file(mm, fs, data, io) ==
    IF "model_id" \notin DOMAIN data
    THEN [mm |-> mm, files |-> fs, result |-> Failure(KeyError("model_id"))]
    ELSE IF "filepath" \notin DOMAIN data
    THEN [mm |-> mm, files |-> fs, result |-> Failure(KeyError("filepath"))]
    ELSE
    LET model_id == data.model_id
        filepath == data.filepath
        model == get_model(mm, model_id)
        save_data == [model |-> model,
                      scaler |-> get_scaler(mm, model_id),
                      encoder |-> get_encoder(mm, model_id),
                      metadata |-> get_metadata(mm, model_id)]
    IN  IF model = None
        THEN [mm |-> mm, files |-> fs,
              result |-> Failure(<<"Model not found: ", model_id>>)]
        ELSE IF io = "open_raises"
        THEN [mm |-> mm, files |-> fs, result |-> Failure(LibraryError("open"))]
        ELSE IF io = "dump_raises"
        THEN [mm |-> mm, files |-> Put(fs, filepath, Corrupt),
              result |-> Failure(LibraryError("pickle.dump"))]
        ELSE [mm |-> mm, files |-> Put(fs, filepath, save_data),
              result |-> [success |-> TRUE, filepath |-> filepath,
                          model_id |-> model_id]]

\* A load that registers the identifier before it reads the file
load_model_from_file_storing_first(mm, fs, data) ==
    IF "filepath" \notin DOMAIN data
    THEN [mm |-> mm, files |-> fs, result |-> Failure(KeyError("filepath"))]
    ELSE
    LET filepath == data.filepath
        model_id == Get(data, "model_id", "loaded_model")
        stored == [mm EXCEPT !.models = Put(mm.models, model_id, None)]
    IN  IF filepath \notin DOMAIN fs
        THEN [mm |-> stored, files |-> fs,
              result |-> Failure(<<"No such file or directory: ", filepath>>)]
        ELSE IF fs[filepath] = Corrupt
        THEN [mm |-> stored, files |-> fs,
              result |-> Failure(LibraryError("pickle.load"))]
        ELSE [mm |-> save_model(mm, model_id, fs[filepath].model,
                                Get(fs[filepath], "scaler", None),
                                Get(fs[filepath], "encoder", None),
                                Get(fs[filepath], "metadata", EmptyDict)),
              files |-> fs,
              result |-> [success |-> TRUE, model_id |-> model_id,
                          filepath |-> filepath,
                          metadata |-> Get(fs[filepath], "metadata", EmptyDict)]]

load_model_from_file(mm, fs, data) ==
    IF "filepath" \notin DOMAIN data
    THEN [mm |-> mm, files |-> fs, result |-> Failure(KeyError("filepath"))]
    ELSE
    LET filepath == data.filepath
        model_id == Get(data, "model_id", "loaded_model")
        save_data == fs[filepath]
        metadata == Get(save_data, "metadata", EmptyDict)
    IN  IF filepath \notin DOMAIN fs
        THEN [mm |-> mm, files |-> fs,
              result |-> Failure(<<"No such file or directory: ", filepath>>)]
        ELSE IF save_data = Corrupt
        THEN [mm |-> mm, files |-> fs, result |-> Failure(LibraryError("pickle.load"))]
        ELSE [mm |-> save_model(mm, model_id, save_data.model,
                                Get(save_data, "scaler", None),
                                Get(save_data, "encoder", None), metadata),
              files |-> fs,
              result |-> [success |-> TRUE, model_id |-> model_id,
                          filepath |-> filepath, metadata |-> metadata]]

----------------------------------------------------------------------------
(* stats_helper.py.  Floats are fixed-point integers: Unit stands for 1.0. *)

Unit == 100 * 100

\* The float n/d
F(n, d) == (n * Unit) \div d

\* abs(x)
Abs(x) == IF x < 0 THEN -x ELSE x

\* a / b on floats, rounded towards zero
Div(a, b) == IF a < 0 THEN -((-a * Unit) \div b) ELSE (a * Unit) \div b

\* float('nan'): a value outside the range of the numbers of the model
FloatNaN == -(Unit * Unit)

\* a < b on floats: every comparison with nan is false
Less(a, b) == a # FloatNaN /\ b # FloatNaN /\ a < b

\* np.sqrt(x) on floats in [0, 4], rounded down
Sqrt(x) == CHOOSE r \in 0..(2 * Unit) : r * r <= x * Unit /\ (r + 1) * (r + 1) > x * Unit

\* interpret_cohens_d with the comparisons made inclusive
interpret_cohens_d_inclusive(d) ==
    IF Abs(d) <= F(2, 10) THEN "negligible"
    ELSE IF Abs(d) <= F(5, 10) THEN "small"
    ELSE IF Abs(d) <= F(8, 10) THEN "medium"
    ELSE "large"

interpret_cohens_d(d) ==
    LET abs_d == Abs(d)
    IN  IF abs_d < F(2, 10) THEN "negligible"
        ELSE IF abs_d < F(5, 10) THEN "small"
        ELSE IF abs_d < F(8, 10) THEN "medium"
        ELSE "large"

interpret_correlation(r) ==
    LET abs_r == Abs(r)
    IN  IF abs_r < F(3, 10) THEN "weak"
        ELSE IF abs_r < F(7, 10) THEN "moderate"
        ELSE "strong"

interpret_cramers_v(v) ==
    IF v < F(1, 10) THEN "negligible"
    ELSE IF v < F(3, 10) THEN "small"
    ELSE IF v < F(5, 10) THEN "medium"
    ELSE "large"

\* interpret_rank_biserial answering in the words of interpret_correlation
interpret_rank_biserial_as_correlation(r) ==
    IF Abs(r) < F(3, 10) THEN "weak"
    ELSE IF Abs(r) < F(7, 10) THEN "moderate"
    ELSE "strong"

interpret_rank_biserial(r) ==
    LET abs_r == Abs(r)
    IN  IF abs_r < F(2, 10) THEN "negligible"
        ELSE IF abs_r < F(5, 10) THEN "small"
        ELSE IF abs_r < F(8, 10) THEN "medium"
        ELSE "large"

\* interpret_pvalue that tests the significance level before the 0.001 band
interpret_pvalue_alpha_first(pvalue, alpha) ==
    IF pvalue <= alpha
    THEN [band |-> "significant", p |-> pvalue, alpha |-> alpha]
    ELSE [band |-> "not significant", p |-> pvalue, alpha |-> alpha]

\* The f-string of interpret_pvalue: its band, the p it prints (-1 where it
\* prints 'p < 0.001' instead of a value) and the alpha it prints
interpret_pvalue(pvalue, alpha) ==
    IF Less(pvalue, F(1, 1000))
    THEN [band |-> "highly significant", p |-> -1, alpha |-> alpha]
    ELSE IF Less(pvalue, alpha)
    THEN [band |-> "significant", p |-> pvalue, alpha |-> alpha]
    ELSE [band |-> "not significant", p |-> pvalue, alpha |-> alpha]

\* The default of interpret_pvalue's alpha parameter
DefaultAlpha == F(5, 100)

\* What the numeric library computes for a request; the environment chooses it:
\*   raises       a scipy/numpy call of the handler raises
\*   statistic    result.statistic (for correlation: r)
\*   pvalue       result.pvalue
\*   mean_diff    np.mean(data1) - np.mean(data2)
\*   pooled_std   the pooled standard deviation
\*   n            np.sum(observed) of chi_square

\* len(x) of a request value: a list is modelled by its length
len(x) == x

calculate_effect_size(test_type, data1, data2, statistic, n, lib) ==
    IF test_type = "ttest" THEN
        LET cohens_d == IF len(data2) > 0 /\ lib.pooled_std > 0
                        THEN Div(lib.mean_diff, lib.pooled_std) ELSE 0
        IN  [type |-> "cohens_d", value |-> cohens_d,
             interpretation |-> interpret_cohens_d(cohens_d)]
    ELSE IF test_type = "correlation" THEN
        [type |-> "r", value |-> IF statistic # 0 THEN statistic ELSE 0,
         interpretation |-> interpret_correlation(IF statistic # 0 THEN statistic ELSE 0)]
    ELSE IF test_type = "chi_square" /\ statistic # 0 /\ n # 0 THEN
        LET cramers_v == Sqrt(Div(statistic, n * Unit))
        IN  [type |-> "cramers_v", value |-> cramers_v,
             interpretation |-> interpret_cramers_v(cramers_v)]
    ELSE IF test_type = "mann_whitney" /\ statistic # 0 /\ len(data1) # 0 /\ len(data2) # 0
    THEN
        LET r == Unit - Div(2 * statistic, len(data1) * len(data2) * Unit)
        IN  [type |-> "rank_biserial", value |-> r,
             interpretation |-> interpret_rank_biserial(r)]
    ELSE [type |-> "none", value |-> 0, interpretation |-> "Not calculated"]

ttest(data, lib) ==
    IF "group1" \notin DOMAIN data THEN Failure(KeyError("group1"))
    ELSE IF lib.raises THEN Failure(LibraryError("ttest"))
    ELSE
    LET group1 == data.group1
        group2 == Get(data, "group2", 0)
        effect == IF len(group2) > 0
                  THEN calculate_effect_size("ttest", group1, group2, 0, 0, lib)
                  ELSE calculate_effect_size("ttest", group1, len(group1), 0, 0, lib)
        df == IF len(group2) > 0 THEN len(group1) + len(group2) - 2 ELSE len(group1) - 1
    IN  [test |-> "t-test", statistic |-> lib.statistic, pvalue |-> lib.pvalue,
         degrees_of_freedom |-> df, effect_size |-> effect,
         interpretation |-> interpret_pvalue(lib.pvalue, DefaultAlpha),
         success |-> TRUE]

\* sum(xs) of a list of integers
RECURSIVE Sum(_)
Sum(xs) == IF xs = <<>> THEN 0 ELSE Head(xs) + Sum(Tail(xs))

\* The greatest common divisor of two naturals
RECURSIVE Gcd(_, _)
Gcd(a, b) == IF b = 0 THEN a ELSE Gcd(b, a % b)

\* The least common multiple of a list of positive integers
RECURSIVE Lcm(_)
Lcm(xs) ==
    IF xs = <<>> THEN 1
    ELSE (Head(xs) * Lcm(Tail(xs))) \div Gcd(Head(xs), Lcm(Tail(xs)))

\* The sums of squares of anova, for groups that are lists of integers, each
\* as an integer multiple: with N values of sum T in all, and S the sum of a
\* group g of n values,
\*   ss_total   = sum over the values x of (x - T/N)^2   = SSTotal / N^2
\*   ss_between = sum over the groups of n * (S/n - T/N)^2
\*              = SSBetween / (N^2 * the least common multiple of the n)
\* np.mean of an empty group is nan, and so is ss_between then.  N, T and L
\* are bound as elements of a singleton, which computes each of them once.
SSTotal(groups) ==
    CHOOSE ss \in
        {Sum([g \in DOMAIN groups |->
                 Sum([x \in DOMAIN groups[g] |->
                         (N * groups[g][x] - T) * (N * groups[g][x] - T)])]) :
            N \in {Sum([g \in DOMAIN groups |-> Len(groups[g])])},
            T \in {Sum([g \in DOMAIN groups |-> Sum(groups[g])])}} : TRUE

SSBetween(groups) ==
    CHOOSE ss \in
        {Sum([g \in DOMAIN groups |->
                 LET n == Len(groups[g])
                     S == Sum(groups[g])
                 IN  (N * S - n * T) * (N * S - n * T) * (L \div n)]) :
            N \in {Sum([g \in DOMAIN groups |-> Len(groups[g])])},
            T \in {Sum([g \in DOMAIN groups |-> Sum(groups[g])])},
            L \in {Lcm([g \in DOMAIN groups |-> Len(groups[g])])}} : TRUE

anova(data, lib) ==
    IF "groups" \notin DOMAIN data THEN Failure(KeyError("groups"))
    ELSE IF Len(data.groups) < 2
    THEN Failure(<<"at least two inputs are required">>)
    ELSE IF lib.raises THEN Failure(LibraryError("f_oneway"))
    ELSE
    LET groups == data.groups
        \* f_oneway answers nan for an input of length 0
        empty == \E g \in DOMAIN groups : Len(groups[g]) = 0
        statistic == IF empty THEN FloatNaN ELSE lib.statistic
        pvalue == IF empty THEN FloatNaN ELSE lib.pvalue
        eta_squared ==
            IF SSTotal(groups) > 0
            THEN (IF empty THEN FloatNaN
                  ELSE Div(SSBetween(groups),
                           SSTotal(groups)
                             * Lcm([g \in DOMAIN groups |-> Len(groups[g])])))
            ELSE 0
        df_between == Len(groups) - 1
        df_within == Sum([g \in DOMAIN groups |-> Len(groups[g])]) - Len(groups)
    IN  [test |-> "ANOVA", statistic |-> statistic, pvalue |-> pvalue,
         degrees_of_freedom |-> [between |-> df_between, within |-> df_within],
         effect_size |-> [type |-> "eta_squared", value |-> eta_squared,
                          interpretation |->
                              IF Less(eta_squared, F(6, 100)) THEN "small"
                              ELSE IF Less(eta_squared, F(14, 100)) THEN "medium"
                              ELSE "large"],
         interpretation |-> interpret_pvalue(pvalue, DefaultAlpha),
         success |-> TRUE]

chi_square(data, lib) ==
    IF "observed" \notin DOMAIN data THEN Failure(KeyError("observed"))
    ELSE IF lib.raises THEN Failure(LibraryError("chi2_contingency"))
    ELSE
    LET effect == calculate_effect_size("chi_square", 0, 0, lib.statistic, lib.n, lib)
    IN  [test |-> "chi-square", statistic |-> lib.statistic, pvalue |-> lib.pvalue,
         effect_size |-> effect,
         interpretation |-> interpret_pvalue(lib.pvalue, DefaultAlpha),
         success |-> TRUE]

correlation(data, lib) ==
    IF "x" \notin DOMAIN data THEN Failure(KeyError("x"))
    ELSE IF "y" \notin DOMAIN data THEN Failure(KeyError("y"))
    ELSE IF lib.raises THEN Failure(LibraryError("correlation"))
    ELSE
    LET method == Get(data, "method", "pearson")
        effect == calculate_effect_size("correlation", data.x, data.y, lib.statistic, 0, lib)
    IN  [test |-> method \o " correlation", statistic |-> lib.statistic,
         pvalue |-> lib.pvalue, effect_size |-> effect,
         interpretation |-> interpret_pvalue(lib.pvalue, DefaultAlpha),
         success |-> TRUE]

regression(data, lib) ==
    IF "x" \notin DOMAIN data THEN Failure(KeyError("x"))
    ELSE IF "y" \notin DOMAIN data THEN Failure(KeyError("y"))
    ELSE IF lib.raises THEN Failure(LibraryError("linregress"))
    ELSE [test |-> "linear regression", r_value |-> lib.statistic,
          r_squared |-> (lib.statistic * lib.statistic) \div Unit,
          pvalue |-> lib.pvalue,
          interpretation |-> interpret_pvalue(lib.pvalue, DefaultAlpha),
          success |-> TRUE]

mann_whitney(data, lib) ==
    IF "group1" \notin DOMAIN data THEN Failure(KeyError("group1"))
    ELSE IF "group2" \notin DOMAIN data THEN Failure(KeyError("group2"))
    ELSE IF lib.raises THEN Failure(LibraryError("mannwhitneyu"))
    ELSE
    LET effect == calculate_effect_size("mann_whitney", data.group1, data.group2,
                                        lib.statistic, 0, lib)
    IN  [test |-> "Mann-Whitney U", statistic |-> lib.statistic, pvalue |-> lib.pvalue,
         effect_size |-> effect,
         interpretation |-> interpret_pvalue(lib.pvalue, DefaultAlpha),
         success |-> TRUE]

----------------------------------------------------------------------------
(* analyze_helper.py: tables.  A DataFrame is its column names in order, its *)
(* index labels in row order and its rows, each a function from the column  *)
(* names to integer cells; NaN is the missing cell.                          *)

NaN == -1

Range(seq) == {seq[k] : k \in 1..Len(seq)}

\* The rows of df at the positions of order, in that order
Take(df, order) ==
    [columns |-> df.columns,
     index |-> [k \in 1..Len(order) |-> df.index[order[k]]],
     rows |-> [k \in 1..Len(order) |-> df.rows[order[k]]]]

Positions(df) == [k \in 1..Len(df.rows) |-> k]

\* A recoverable exception / a returned table
Raise(message) == [raised |-> TRUE, error |-> message]

Return(df) == [raised |-> FALSE, df |-> df]

\* df.query(query), query being None or the expression 'column > gt'
query_(df, query) ==
    IF query = None THEN Raise(<<"expr must be a string to be evaluated">>)
    ELSE IF query.column \notin Range(df.columns)
    THEN Raise(<<"name '", query.column, "' is not defined">>)
    ELSE Return(Take(df, SelectSeq(Positions(df),
                        LAMBDA k : /\ df.rows[k][query.column] # NaN
                                   /\ df.rows[k][query.column] > query.gt)))

\* df[columns]
select(df, columns) ==
    IF ~(Range(columns) \subseteq Range(df.columns))
    THEN Raise(<<"not in index">>)
    ELSE Return([columns |-> columns, index |-> df.index,
                 rows |-> [k \in 1..Len(df.rows) |->
                             [c \in Range(columns) |-> df.rows[k][c]]]])

\* df.sort_values(by=[by], ascending=ascending): missing cells last, ties in
\* their order
sort_values(df, by, ascending) ==
    IF by \notin Range(df.columns) THEN Raise(<<"'", by, "'">>)
    ELSE
    LET n == Len(df.rows)
        key(k) == df.rows[k][by]
        Before(i, j) ==
            IF key(i) = key(j) THEN i < j
            ELSE IF key(i) = NaN THEN FALSE
            ELSE IF key(j) = NaN THEN TRUE
            ELSE IF ascending THEN key(i) < key(j) ELSE key(i) > key(j)
        order == CHOOSE o \in [1..n -> 1..n] :
                    \A k, l \in 1..n : k < l => Before(o[k], o[l])
    IN  Return(Take(df, order))

\* The elements of a set of integers in increasing order
RECURSIVE Sorted(_)
Sorted(S) ==
    IF S = {} THEN <<>>
    ELSE LET m == CHOOSE x \in S : \A y \in S : x <= y
         IN  <<m>> \o Sorted(S \ {m})

\* The sum of the cells of column c in the rows of df whose column by is key
RECURSIVE SumWhere(_, _, _, _, _)
SumWhere(df, by, key, c, k) ==
    IF k = 0 THEN 0
    ELSE SumWhere(df, by, key, c, k - 1)
         + (IF df.rows[k][by] = key /\ df.rows[k][c] # NaN THEN df.rows[k][c] ELSE 0)

\* df.groupby(by).agg({column: 'sum'}).reset_index()
groupby(df, by, agg) ==
    IF by \notin Range(df.columns) THEN Raise(<<"'", by, "'">>)
    ELSE IF agg \notin Range(df.columns) \/ agg = by
    THEN Raise(<<"Column(s) ['", agg, "'] do not exist">>)
    ELSE
    LET keys == Sorted({df.rows[k][by] : k \in 1..Len(df.rows)} \ {NaN})
    IN  Return([columns |-> <<by, agg>>,
                index |-> [k \in 1..Len(keys) |-> k - 1],
                rows |-> [k \in 1..Len(keys) |->
                            [c \in {by, agg} |->
                                IF c = by THEN keys[k]
                                ELSE SumWhere(df, by, keys[k], agg, Len(df.rows))]]])

\* df.rename(columns=columns), the dict columns being given as the sequence
\* <<old1, new1, old2, new2, ...>>; the names that are no column are ignored
rename(df, columns) ==
    LET olds == {columns[2 * k - 1] : k \in 1..(Len(columns) \div 2)}
        new(c) == IF c \in olds
                  THEN columns[2 * (CHOOSE k \in 1..(Len(columns) \div 2) :
                                        columns[2 * k - 1] = c)]
                  ELSE c
    IN  Return([columns |-> [k \in 1..Len(df.columns) |-> new(df.columns[k])],
                index |-> df.index,
                rows |-> [k \in 1..Len(df.rows) |->
                            [c \in {new(x) : x \in Range(df.columns)} |->
                                df.rows[k][CHOOSE x \in Range(df.columns) : new(x) = c]]]])

\* df.drop(columns=columns)
drop_columns(df, columns) ==
    IF ~(Range(columns) \subseteq Range(df.columns))
    THEN Raise(<<"not found in axis">>)
    ELSE Return([columns |-> SelectSeq(df.columns, LAMBDA c : c \notin Range(columns)),
                 index |-> df.index,
                 rows |-> [k \in 1..Len(df.rows) |->
                             [c \in Range(df.columns) \ Range(columns) |-> df.rows[k][c]]]])

\* df.drop(index=index)
drop_index(df, index) ==
    IF ~(Range(index) \subseteq Range(df.index))
    THEN Raise(<<"not found in axis">>)
    ELSE Return(Take(df, SelectSeq(Positions(df),
                        LAMBDA k : df.index[k] \notin Range(index))))

\* df.fillna(value)
fillna_value(df, value) ==
    Return([df EXCEPT !.rows =
        [k \in 1..Len(df.rows) |->
            [c \in Range(df.columns) |->
                IF df.rows[k][c] = NaN THEN value ELSE df.rows[k][c]]]])

\* The cell of column c in row k after a forward fill
RECURSIVE Ffill(_, _, _)
Ffill(df, c, k) ==
    IF df.rows[k][c] # NaN \/ k = 1 THEN df.rows[k][c] ELSE Ffill(df, c, k - 1)

\* df.fillna(method='ffill')
fillna_method(df, method) ==
    IF method # "ffill" THEN Raise(<<"Invalid fill method: ", method>>)
    ELSE Return([df EXCEPT !.rows =
        [k \in 1..Len(df.rows) |-> [c \in Range(df.columns) |-> Ffill(df, c, k)]]])

\* df.astype(dtypes), each dtype 'int' or 'bool'
astype(df, dtypes) ==
    IF ~(DOMAIN dtypes \subseteq Range(df.columns))
    THEN Raise(<<"Only a column name can be used for the key in a dtype mappings argument.">>)
    ELSE IF \E c \in DOMAIN dtypes, k \in 1..Len(df.rows) :
                dtypes[c] = "int" /\ df.rows[k][c] = NaN
    THEN Raise(<<"Cannot convert non-finite values (NA or inf) to integer">>)
    ELSE Return([df EXCEPT !.rows =
        [k \in 1..Len(df.rows) |->
            [c \in Range(df.columns) |->
                IF c \in DOMAIN dtypes /\ dtypes[c] = "bool"
                THEN (IF df.rows[k][c] = 0 THEN 0 ELSE 1)
                ELSE df.rows[k][c]]]])

\* The else branch raising without the name of the operation
UnsupportedTransformation_unnamed(operation) ==
    Raise(<<"Unsupported transformation">>)

\* The else branch of the loop body: an operation that is none of the eight
UnsupportedTransformation(operation) ==
    Raise(<<"Unsupported transformation: ", operation>>)

\* One pass of the loop body of transform_data on df_result
ApplyTransform(df_result, transform) ==
    LET operation == Get(transform, "operation", "None")
    IN  IF operation = "filter" THEN query_(df_result, Get(transform, "query", None))
        ELSE IF operation = "select"
        THEN select(df_result, Get(transform, "columns", <<>>))
        ELSE IF operation = "sort"
        THEN sort_values(df_result, transform.by, Get(transform, "ascending", TRUE))
        ELSE IF operation = "groupby"
        THEN groupby(df_result, transform.by, transform.agg)
        ELSE IF operation = "rename"
        THEN rename(df_result, Get(transform, "columns", <<>>))
        ELSE IF operation = "drop" THEN
            LET columns == Get(transform, "columns", <<>>)
                index == Get(transform, "index", <<>>)
                dropped == IF columns # <<>> THEN drop_columns(df_result, columns)
                           ELSE Return(df_result)
            IN  IF dropped.raised \/ index = <<>> THEN dropped
                ELSE drop_index(dropped.df, index)
        ELSE IF operation = "fillna" THEN
            IF "value" \in DOMAIN transform THEN fillna_value(df_result, transform.value)
            ELSE IF "method" \in DOMAIN transform
            THEN fillna_method(df_result, transform.method)
            ELSE Return(df_result)
        ELSE IF operation = "astype"
        THEN astype(df_result, Get(transform, "dtypes", EmptyDict))
        ELSE UnsupportedTransformation(operation)

\* execute_query
execute_query(df, query) == query_(df, query)

\* The default of serialize_dataframe's max_rows parameter
MaxPreviewRows == 100

\* df.head(n)
head(df, n) == Take(df, SubSeq(Positions(df), 1, IF Len(df.rows) < n THEN Len(df.rows) ELSE n))

\* A serialization that describes the preview instead of the table
serialize_dataframe_of_preview(df, max_rows) ==
    [shape |-> [rows |-> IF Len(df.rows) < max_rows THEN Len(df.rows) ELSE max_rows,
                columns |-> Len(df.columns)],
     columns |-> df.columns,
     data |-> SubSeq(df.rows, 1, IF Len(df.rows) < max_rows THEN Len(df.rows) ELSE max_rows),
     truncated |-> Len(df.rows) >= max_rows]

serialize_dataframe(df, max_rows) ==
    [shape |-> [rows |-> Len(df.rows), columns |-> Len(df.columns)],
     columns |-> df.columns,
     data |-> head(df, max_rows).rows,
     truncated |-> Len(df.rows) > max_rows]

describe_data(df) ==
    [shape |-> [rows |-> Len(df.rows), columns |-> Len(df.columns)],
     columns |-> df.columns,
     missing_values |->
        [c \in Range(df.columns) |->
            Cardinality({k \in 1..Len(df.rows) : df.rows[k][c] = NaN})],
     preview |-> head(df, 5).rows]

----------------------------------------------------------------------------
(* Requests *)

\* The dicts that hold key with one of Vals, or do not hold it
Opt(key, Vals) == {EmptyDict} \cup {[k \in {key} |-> v] : v \in Vals}

\* The dicts made of one dict of each set of a sequence of sets of dicts
RECURSIVE Dicts(_)
Dicts(sets) ==
    IF sets = <<>> THEN {EmptyDict}
    ELSE {Merge(d, rest) : d \in Head(sets), rest \in Dicts(Tail(sets))}

ModelIds == {"m1", "m2"}

Filepaths == {"f1"}

\* The dicts of ds without one of the keys each
Without(ds, keys) ==
    {[k \in DOMAIN d \ {key} |-> d[k]] : d \in ds, key \in keys}

\* The requests of one long-lived process of the ML helper: the well-formed
\* ones, and those that lack one required field
TrainOk ==
    Dicts(<<{[X |-> "X1", y |-> "y1", algorithm |-> "random_forest"]},
            Opt("scale", {TRUE}), Opt("task_type", {"classification"}),
            {[model_id |-> m] : m \in ModelIds}>>)

TrainData ==
    TrainOk \cup {[X |-> "X1", y |-> "y1", algorithm |-> "bogus", model_id |-> "m1"],
                  [y |-> "y1", algorithm |-> "bogus", model_id |-> "m1"]}
            \cup Without({[X |-> "X1", y |-> "y1", algorithm |-> "random_forest",
                           model_id |-> "m1"]}, {"X", "y", "algorithm"})

PredictData ==
    {[X |-> "X2", model_id |-> m] : m \in ModelIds}
    \cup Without({[X |-> "X2", model_id |-> "m1"]}, {"X", "model_id"})

EvaluateData ==
    {[X |-> "X2", y |-> "y2", model_id |-> m] : m \in ModelIds}
               \cup Without({[X |-> "X2", y |-> "y2", model_id |-> "m1"]},
                            {"X", "y", "model_id"})

TuneData ==
    {[X |-> "X1", y |-> "y1", param_grid |-> "grid", algorithm |-> a] :
        a \in {"random_forest", "bogus"}}
           \cup {[X |-> "X1", y |-> "y1", algorithm |-> "bogus"]}
           \cup Without({[X |-> "X1", y |-> "y1", param_grid |-> "grid",
                          algorithm |-> "random_forest"]},
                        {"X", "y", "algorithm", "param_grid"})

ExplainData == {[model_id |-> m] : m \in ModelIds} \cup {EmptyDict}

SaveData ==
    {[model_id |-> m, filepath |-> f] : m \in ModelIds, f \in Filepaths}
    \cup Without({[model_id |-> "m1", filepath |-> "f1"]}, {"model_id", "filepath"})

LoadData ==
    {[model_id |-> m, filepath |-> f] : m \in ModelIds, f \in Filepaths}
    \cup {[model_id |-> "m1"]}

----------------------------------------------------------------------------
(* One long-lived process of the ML helper: the handlers called one after  *)
(* the other on the one model_manager of the process.                      *)

VARIABLES
    helper,         \* which helper script the process runs
    pc,             \* where the process is in main: read, route, transform, exited
    stdin,          \* what the process finds on standard input
    stdout,         \* what was written to standard output so far
    exit_code,      \* the exit status, once pc = "exited" (-1 before)
    invoked,        \* the handlers main has called, in order
    df,             \* analyze_helper: the table load_data returned
    df_result,      \* analyze_helper: the table transform_data works on
    i               \* analyze_helper: the step transform_data's loop is at

mlvars == <<model_manager, files, input_data, result, trained>>

procvars == <<helper, pc, stdin, stdout, exit_code, invoked, df, df_result, i>>

vars == <<mlvars, procvars>>

\* The empty table
NoTable == [columns |-> <<>>, index |-> <<>>, rows |-> <<>>]

InitML ==
    /\ model_manager = ModelManager
    /\ files = EmptyDict
    /\ input_data = [action |-> "none", data |-> EmptyDict]
    /\ result = None
    /\ trained = {}
    /\ helper = "ml"
    /\ pc = "serving"
    /\ stdin = None
    /\ stdout = <<>>
    /\ exit_code = -1
    /\ invoked = <<>>
    /\ df = NoTable
    /\ df_result = NoTable
    /\ i = 0

Handled(action, data, out) ==
    /\ input_data' = [action |-> action, data |-> data]
    /\ model_manager' = out.mm
    /\ result' = out.result
    /\ trained' = IF action \in {"train", "load"} /\ out.result.success
                  THEN trained \cup {out.result.model_id}
                  ELSE trained
    /\ UNCHANGED procvars

Train ==
    \E data \in TrainData, lib \in {"ok", "pre_raises", "post_raises"} :
        /\ Handled("train", data, train(model_manager, data, lib))
        /\ UNCHANGED files

Predict ==
    \E data \in PredictData, lib \in {"ok", "post_raises"} :
        /\ Handled("predict", data, predict(model_manager, data, lib))
        /\ UNCHANGED files

Evaluate ==
    \E data \in EvaluateData, lib \in {"ok", "post_raises"} :
        /\ Handled("evaluate", data, evaluate(model_manager, data, lib))
        /\ UNCHANGED files

Tune ==
    \E data \in TuneData, lib \in {"ok", "pre_raises", "post_raises"} :
        /\ Handled("tune", data, tune(model_manager, data, lib))
        /\ UNCHANGED files

Explain ==
    \E data \in ExplainData :
        /\ Handled("explain", data, explain(model_manager, data))
        /\ UNCHANGED files

Save ==
    \E data \in SaveData, io \in {"ok", "open_raises"} :
        LET out == save_model_to_file(model_manager, files, data, io)
        IN  /\ Handled("save", data, out)
            /\ files' = out.files

Load ==
    \E data \in LoadData :
        LET out == load_model_from_file(model_manager, files, data)
        IN  /\ Handled("load", data, out)
            /\ files' = out.files

NextML == Train \/ Predict \/ Evaluate \/ Tune \/ Explain \/ Save \/ Load

SpecML == InitML /\ [][NextML]_vars

----------------------------------------------------------------------------
(* export_helper.py: the filesystem the handlers write to.  A path is the   *)
(* sequence of its components, <<"out", "f">> for 'out/f'; files maps the   *)
(* paths that exist to a directory or to a file's content.                  *)

Directory == [cls |-> "Directory"]

\* os.path.dirname(filepath): <<>> is '', the path without a directory part
dirname(filepath) == SubSeq(filepath, 1, Len(filepath) - 1)

\* The outcome of a filesystem call: the files afterwards, and the OSError
FsOk(fs) == [raised |-> FALSE, error |-> <<>>, files |-> fs]

FsRaise(fs, message) == [raised |-> TRUE, error |-> message, files |-> fs]

\* os.path.isdir; the current directory always exists
isdir(fs, path) == path = <<>> \/ (path \in DOMAIN fs /\ fs[path].cls = "Directory")

\* os.makedirs(name, exist_ok=True): the missing ancestors first, then name;
\* an existing directory is accepted, an existing file is not
RECURSIVE makedirs(_, _)
makedirs(fs, name) ==
    IF name = <<>> THEN FsOk(fs)
    ELSE LET made == makedirs(fs, dirname(name))
         IN  IF made.raised THEN made
             ELSE IF ~isdir(made.files, dirname(name))
             THEN FsRaise(made.files, <<"[Errno 20] Not a directory: ">> \o name)
             ELSE IF name \notin DOMAIN made.files
             THEN FsOk(Put(made.files, name, Directory))
             ELSE IF made.files[name].cls = "Directory" THEN made
             ELSE FsRaise(made.files, <<"[Errno 17] File exists: ">> \o name)

\* A handler that does not create the directory
ensure_directory_skipped(fs, filepath) == FsOk(fs)

\* os.makedirs(os.path.dirname(filepath) if os.path.dirname(filepath) else '.',
\*             exist_ok=True)
ensure_directory(fs, filepath) == makedirs(fs, dirname(filepath))

\* open(filepath, 'w') and the write of content, also the one a library does
open_w(fs, filepath, content) ==
    IF ~isdir(fs, dirname(filepath))
    THEN FsRaise(fs, <<"[Errno 2] No such file or directory: ">> \o filepath)
    ELSE IF isdir(fs, filepath)
    THEN FsRaise(fs, <<"[Errno 21] Is a directory: ">> \o filepath)
    ELSE FsOk(Put(fs, filepath, content))

----------------------------------------------------------------------------
(* export_helper.py: export_data.  A DataFrame is its columns and its rows  *)
(* of cells; a cell is its dtype and the text to_csv writes for it.         *)

Cell(type, text) == [type |-> type, text |-> text]

\* df.to_csv(filepath, index=False): the header line and one line of fields
\* for each row
to_csv(frame) ==
    [cls |-> "csv",
     header |-> frame.columns,
     lines |-> [r \in 1..Len(frame.rows) |->
                   [c \in 1..Len(frame.columns) |-> frame.rows[r][c].text]]]

\* The number a field reads as, for the fields that read as one
Numeric ==
    [t \in {"1", "2", "001", "1.5"} |->
        IF t = "1.5" THEN Cell("float", "1.5")
        ELSE IF t = "2" THEN Cell("int", "2")
        ELSE Cell("int", "1")]

\* The dtype inference of pd.read_csv for one column: numbers if every field
\* that is not empty reads as one, strings otherwise; an empty field is NaN,
\* and the integers of a column that has a NaN or a float are floats
InferColumn(fields) ==
    LET filled == {k \in 1..Len(fields) : fields[k] # ""}
        numeric == \A k \in filled : fields[k] \in DOMAIN Numeric
        integers == /\ filled = 1..Len(fields)
                    /\ \A k \in filled : Numeric[fields[k]].type = "int"
    IN  [k \in 1..Len(fields) |->
            IF fields[k] = "" THEN Cell("nan", "")
            ELSE IF ~numeric THEN Cell("str", fields[k])
            ELSE IF integers THEN Numeric[fields[k]]
            ELSE IF Numeric[fields[k]].type = "float" THEN Numeric[fields[k]]
            ELSE Cell("float", Numeric[fields[k]].text \o ".0")]

\* pd.read_csv(source) of a file's content
read_csv(content) ==
    IF content.cls # "csv"
    THEN Raise(<<"Error tokenizing data">>)
    ELSE IF content.header = <<>>
    THEN Raise(<<"No columns to parse from file">>)
    ELSE LET column(c) == InferColumn([r \in 1..Len(content.lines) |->
                                          content.lines[r][c]])
         IN  Return([columns |-> content.header,
                     rows |-> [r \in 1..Len(content.lines) |->
                                  [c \in 1..Len(content.header) |-> column(c)[r]]]])

\* load_data(source, 'csv'), source being a path of fs
load_csv(fs, source) ==
    IF source \notin DOMAIN fs \/ isdir(fs, source)
    THEN Raise(<<"Failed to load data: ", "[Errno 2] No such file or directory">>)
    ELSE LET read == read_csv(fs[source])
         IN  IF read.raised THEN Raise(<<"Failed to load data: ">> \o read.error)
             ELSE read

\* lib = "raises": pd.DataFrame(data['data']) raises; lib = "not_installed":
\* the engine behind to_excel or to_parquet is missing
export_data(fs, data, lib) ==
    IF "data" \notin DOMAIN data
    THEN [files |-> fs, result |-> Failure(KeyError("data"))]
    ELSE IF lib = "raises"
    THEN [files |-> fs, result |-> Failure(LibraryError("DataFrame"))]
    ELSE IF "filepath" \notin DOMAIN data
    THEN [files |-> fs, result |-> Failure(KeyError("filepath"))]
    ELSE
    LET frame == data.data
        filepath == data.filepath
        format_type == Get(data, "format", "csv")
        made == ensure_directory(fs, filepath)
        content == IF format_type = "csv" THEN to_csv(frame)
                   ELSE [cls |-> format_type, frame |-> frame]
        written == open_w(made.files, filepath, content)
    IN  IF made.raised THEN [files |-> made.files, result |-> Failure(made.error)]
        ELSE IF format_type \notin {"csv", "excel", "json", "parquet"}
        THEN [files |-> made.files,
              result |-> Failure(<<"Unsupported format: ", format_type>>)]
        ELSE IF lib = "not_installed" /\ format_type \in {"excel", "parquet"}
        THEN [files |-> made.files, result |-> Failure(LibraryError(format_type))]
        ELSE IF written.raised
        THEN [files |-> written.files, result |-> Failure(written.error)]
        ELSE [files |-> written.files,
              result |-> [success |-> TRUE, filepath |-> filepath,
                          format |-> format_type, rows |-> Len(frame.rows),
                          columns |-> Len(frame.columns)]]

----------------------------------------------------------------------------
(* export_helper.py: the report generators.  The HTML text is the sequence  *)
(* of the pieces appended to html_content, the PDF the story of flowables;  *)
(* the timestamp line is left out of both.                                  *)

\* A piece of a document: an HTML element appended to html_content, or a
\* flowable (Paragraph, Table, Spacer) appended to the story of the PDF
Piece(tag, text) == [tag |-> tag, text |-> text]

\* 'for section in sections' of a generator: the pieces of the sections, one
\* after the other
RECURSIVE Appended(_)
Appended(pieces) ==
    IF pieces = <<>> THEN <<>> ELSE Head(pieces) \o Appended(Tail(pieces))

\* pd.DataFrame(section_content) of a table section raises: the library
\* rejects the content, or the section has none ('' is not tabular)
TableRaises(sections, lib) ==
    \E k \in 1..Len(sections) :
        /\ Get(sections[k], "type", "text") = "table"
        /\ lib = "raises" \/ "content" \notin DOMAIN sections[k]

\* 'for metric in section_content' of the HTML generator
RECURSIVE html_metrics(_)
html_metrics(section_content) ==
    IF section_content = <<>> THEN <<>>
    ELSE LET metric == Head(section_content)
         IN  <<Piece("div.metric-label", Get(metric, "label", "Metric")),
               Piece("div.metric-value", Get(metric, "value", "N/A"))>>
             \o html_metrics(Tail(section_content))

\* One pass of 'for section in sections' of generate_html_report
html_section(section) ==
    LET section_type == Get(section, "type", "text")
        section_title == Get(section, "title", "")
        section_content == Get(section, "content", "")
    IN  <<Piece("div.section", "")>>
        \o (IF section_title # "" THEN <<Piece("h2", section_title)>> ELSE <<>>)
        \o (IF section_type = "text" THEN <<Piece("p", section_content)>>
            ELSE IF section_type = "table" THEN <<Piece("table", section_content)>>
            ELSE IF section_type = "metrics"
            THEN <<Piece("div.metrics", "")>>
                 \o (IF "content" \in DOMAIN section
                     THEN html_metrics(section_content) ELSE <<>>)
                 \o <<Piece("/div", "")>>
            ELSE IF section_type = "plot" THEN <<Piece("img", section_content)>>
            ELSE IF section_type = "code" THEN <<Piece("pre", section_content)>>
            ELSE IF section_type = "alert"
            THEN <<Piece("div.alert-" \o Get(section, "alert_type", "info"),
                         section_content)>>
            ELSE <<>>)
        \o <<Piece("/div", "")>>

generate_html_report(fs, data, lib) ==
    IF "filepath" \notin DOMAIN data
    THEN [files |-> fs, result |-> Failure(KeyError("filepath"))]
    ELSE
    LET title == Get(data, "title", "Data Analysis Report")
        sections == Get(data, "sections", <<>>)
        filepath == data.filepath
        made == ensure_directory(fs, filepath)
        html_content == <<Piece("h1", title)>>
                        \o Appended([k \in 1..Len(sections) |-> html_section(sections[k])])
                        \o <<Piece("div.footer", "Generated with Awesome Plugin Science Tools")>>
        written == open_w(made.files, filepath,
                          [cls |-> "html", document |-> html_content])
    IN  IF made.raised THEN [files |-> made.files, result |-> Failure(made.error)]
        ELSE IF TableRaises(sections, lib)
        THEN [files |-> made.files, result |-> Failure(LibraryError("DataFrame"))]
        ELSE IF written.raised
        THEN [files |-> written.files, result |-> Failure(written.error)]
        ELSE [files |-> written.files,
              result |-> [success |-> TRUE, filepath |-> filepath,
                          format |-> "html", sections |-> Len(sections)]]

\* 'for metric in section_content' of the PDF generator
RECURSIVE pdf_metrics(_)
pdf_metrics(section_content) ==
    IF section_content = <<>> THEN <<>>
    ELSE LET metric == Head(section_content)
         IN  <<Piece("Paragraph", "<b>" \o Get(metric, "label", "Metric") \o ":</b> "
                                     \o Get(metric, "value", "N/A"))>>
             \o pdf_metrics(Tail(section_content))

\* One pass of 'for section in sections' of generate_pdf_report: the chain
\* has a branch for text, table and metrics only
pdf_section(section) ==
    LET section_type == Get(section, "type", "text")
        section_title == Get(section, "title", "")
        section_content == Get(section, "content", "")
    IN  (IF section_title # ""
         THEN <<Piece("Heading2", section_title), Piece("Spacer", "")>>
         ELSE <<>>)
        \o (IF section_type = "text"
            THEN <<Piece("Paragraph", section_content), Piece("Spacer", "")>>
            ELSE IF section_type = "table"
            THEN <<Piece("Table", section_content), Piece("Spacer", "")>>
            ELSE IF section_type = "metrics"
            THEN (IF "content" \in DOMAIN section
                  THEN pdf_metrics(section_content) ELSE <<>>)
                 \o <<Piece("Spacer", "")>>
            ELSE <<>>)

generate_pdf_report(fs, data, lib) ==
    IF lib = "not_installed"
    THEN [files |-> fs,
          result |-> Failure(<<"reportlab not installed. Install with: pip install reportlab">>)]
    ELSE IF "filepath" \notin DOMAIN data
    THEN [files |-> fs, result |-> Failure(KeyError("filepath"))]
    ELSE
    LET title == Get(data, "title", "Data Analysis Report")
        sections == Get(data, "sections", <<>>)
        filepath == data.filepath
        made == ensure_directory(fs, filepath)
        story == <<Piece("CustomTitle", title), Piece("Spacer", "")>>
                 \o Appended([k \in 1..Len(sections) |-> pdf_section(sections[k])])
        \* doc.build(story) opens filepath and writes the pages
        written == open_w(made.files, filepath, [cls |-> "pdf", document |-> story])
    IN  IF made.raised THEN [files |-> made.files, result |-> Failure(made.error)]
        ELSE IF TableRaises(sections, lib)
        THEN [files |-> made.files, result |-> Failure(LibraryError("DataFrame"))]
        ELSE IF written.raised
        THEN [files |-> written.files, result |-> Failure(written.error)]
        ELSE [files |-> written.files,
              result |-> [success |-> TRUE, filepath |-> filepath,
                          format |-> "pdf", sections |-> Len(sections)]]

----------------------------------------------------------------------------
(* export_helper.py: export_notebook *)

new_markdown_cell(source) == [cell_type |-> "markdown", source |-> source]

\* A code cell written as prose
new_code_cell_as_markdown(source) == [cell_type |-> "markdown", source |-> source]

new_code_cell(source) == [cell_type |-> "code", source |-> source]

\* 'for cell_data in cells_data': a cell of another type is passed over
RECURSIVE notebook_cells(_)
notebook_cells(cells_data) ==
    IF cells_data = <<>> THEN <<>>
    ELSE LET cell_data == Head(cells_data)
             cell_type == Get(cell_data, "type", "markdown")
             content == Get(cell_data, "content", "")
         IN  (IF cell_type = "markdown" THEN <<new_markdown_cell(content)>>
              ELSE IF cell_type = "code" THEN <<new_code_cell(content)>>
              ELSE <<>>)
             \o notebook_cells(Tail(cells_data))

\* lib = "raises": nbformat.write raises after open(filepath, 'w') has
\* created the file, which stays empty
export_notebook(fs, data, lib) ==
    IF lib = "not_installed"
    THEN [files |-> fs,
          result |-> Failure(<<"nbformat not installed. Install with: pip install nbformat">>)]
    ELSE IF "filepath" \notin DOMAIN data
    THEN [files |-> fs, result |-> Failure(KeyError("filepath"))]
    ELSE
    LET title == Get(data, "title", "Data Analysis")
        cells_data == Get(data, "cells", <<>>)
        filepath == data.filepath
        made == ensure_directory(fs, filepath)
        cells == <<new_markdown_cell("# " \o title)>> \o notebook_cells(cells_data)
        opened == open_w(made.files, filepath, [cls |-> "empty"])
        written == open_w(made.files, filepath, [cls |-> "notebook", cells |-> cells])
    IN  IF made.raised THEN [files |-> made.files, result |-> Failure(made.error)]
        ELSE IF opened.raised
        THEN [files |-> opened.files, result |-> Failure(opened.error)]
        ELSE IF lib = "raises"
        THEN [files |-> opened.files, result |-> Failure(LibraryError("nbformat.write"))]
        ELSE [files |-> written.files,
              result |-> [success |-> TRUE, filepath |-> filepath,
                          format |-> "notebook", cells |-> Len(cells)]]

----------------------------------------------------------------------------
(* analyze_helper.py and visualize_helper.py: load_data *)

\* The tables behind the sources a request can name (a file's or a JSON
\* string's content): two small ones, and two of one column that end at and
\* just beyond the length of the preview
Datasets ==
    LET Numbered(n) == [columns |-> <<"a">>, index |-> [k \in 1..n |-> k - 1],
                        rows |-> [k \in 1..n |-> [a |-> k]]]
    IN  [t1 |-> [columns |-> <<"a", "b">>, index |-> <<0, 1, 2>>,
                 rows |-> <<[a |-> 2, b |-> 1], [a |-> 1, b |-> NaN], [a |-> 3, b |-> 1]>>],
         t2 |-> [columns |-> <<"a", "b">>, index |-> <<0, 1>>,
                 rows |-> <<[a |-> 0, b |-> 2], [a |-> 2, b |-> 0]>>],
         t100 |-> Numbered(MaxPreviewRows),
         t101 |-> Numbered(MaxPreviewRows + 1)]

SourceTypes == {"csv", "json", "parquet", "dict", "memory"}

load_data(source, source_type) ==
    IF source_type \notin SourceTypes
    THEN Raise(<<"Failed to load data: ", "Unsupported source type: ", source_type>>)
    ELSE IF source \notin DOMAIN Datasets
    THEN Raise(<<"Failed to load data: ", "cannot read ", source>>)
    ELSE Return(Datasets[source])

\* An execute_code that returns the table whatever the script left in result
execute_code_table_first(table, code) ==
    IF code = "raise SystemExit"
    THEN [raised |-> FALSE, exits |-> TRUE, printed |-> <<>>, value |-> [cls |-> "NoneType"]]
    ELSE IF code \notin {"result = df.shape", "df = df.head(1)", "pass", "print(df.shape)",
                         "df = df.head(1); result = df.shape"}
    THEN [raised |-> TRUE, exits |-> FALSE, printed |-> <<>>, error |-> <<"exec: ", code>>]
    ELSE [raised |-> FALSE, exits |-> FALSE,
          printed |-> IF code = "print(df.shape)" THEN <<[text |-> "(3, 2)"]>> ELSE <<>>,
          value |-> IF code \in {"df = df.head(1)", "df = df.head(1); result = df.shape"}
                    THEN head(table, 1) ELSE table]

\* execute_code: exec(code, context) for the scripts
\*   "result = df.shape"   binds result
\*   "df = df.head(1)"     rebinds df
\*   "df = df.head(1); result = df.shape"   rebinds df, then binds result
\*   "pass"                binds nothing
\*   "print(df.shape)"     binds nothing and writes a line to standard output
\*   "raise SystemExit"    ends the process the way sys.exit() does
\*   "raise"               raises
\* and the value returned: context['result'] unless it is None, else context['df']
execute_code(table, code) ==
    LET context == [df |-> table, result |-> None]
        shape(t) == [rows |-> Len(t.rows), columns |-> Len(t.columns)]
        after == IF code = "result = df.shape"
                 THEN [context EXCEPT !.result = shape(context.df)]
                 ELSE IF code = "df = df.head(1)"
                 THEN [context EXCEPT !.df = head(context.df, 1)]
                 ELSE IF code = "df = df.head(1); result = df.shape"
                 THEN [context EXCEPT !.df = head(context.df, 1),
                                      !.result = shape(head(context.df, 1))]
                 ELSE context
        printed == IF code = "print(df.shape)" THEN <<[text |-> "(3, 2)"]>> ELSE <<>>
    IN  IF code = "raise SystemExit"
        THEN [raised |-> FALSE, exits |-> TRUE, printed |-> <<>>, value |-> None]
        ELSE IF code \notin {"result = df.shape", "df = df.head(1)", "pass",
                             "print(df.shape)", "df = df.head(1); result = df.shape"}
        THEN [raised |-> TRUE, exits |-> FALSE, printed |-> <<>>,
              error |-> <<"exec: ", code>>]
        ELSE IF after.result # None
        THEN [raised |-> FALSE, exits |-> FALSE, printed |-> printed,
              value |-> after.result]
        ELSE [raised |-> FALSE, exits |-> FALSE, printed |-> printed,
              value |-> after.df]

----------------------------------------------------------------------------
(* visualize_helper.py *)

ChartTypes == {"line", "bar", "scatter", "histogram", "heatmap", "boxplot"}

\* The chart function main calls for a chart type
ChartFunction(chart_type) ==
    IF chart_type = "line" THEN "create_line_chart"
    ELSE IF chart_type = "bar" THEN "create_bar_chart"
    ELSE IF chart_type = "scatter" THEN "create_scatter_plot"
    ELSE IF chart_type = "histogram" THEN "create_histogram"
    ELSE IF chart_type = "heatmap" THEN "create_heatmap"
    ELSE IF chart_type = "boxplot" THEN "create_boxplot"
    ELSE IF chart_type = "custom" THEN "create_custom_plot"
    ELSE "create_plotly_chart"

\* save_figure: it reads config, a name that only main binds
save_figure(fig, output_format, output_path) ==
    IF output_format = "png" THEN Raise(<<"name 'config' is not defined">>)
    ELSE IF output_format = "svg" THEN
        IF output_path # "None"
        THEN [raised |-> FALSE, value |-> [format |-> "svg", path |-> output_path]]
        ELSE [raised |-> FALSE, value |-> [format |-> "svg", data |-> fig]]
    ELSE Raise(<<"Unsupported output format: ", output_format>>)

\* The palettes seaborn knows
Palettes == {"deep", "muted"}

\* apply_style: sns.set_palette raises for a palette it does not know
apply_style(theme, style_options) ==
    IF "palette" \in DOMAIN style_options /\ style_options.palette \notin Palettes
    THEN Raise(<<"'", style_options.palette, "' is not a valid palette name">>)
    ELSE [raised |-> FALSE]

\* The body of visualize main's try block: the chart function it calls and
\* either the result it prints or the exception that reaches its except
\* clause.  lib: "ok", "chart_raises" (the chart function raises)
visualize(request, lib) ==
    LET chart_type == Get(request, "chart_type", "None")
        config == Get(request, "config", EmptyDict)
        output == Get(request, "output", EmptyDict)
        style == Get(request, "style", EmptyDict)
        code == Get(request, "code", "None")
        loaded == load_data(Get(request, "source", "None"), Get(request, "source_type", "None"))
        styled == apply_style(Get(style, "theme", "default"), style)
        fig == [chart |-> ChartFunction(chart_type), table |-> loaded.df]
        saved == save_figure(fig, Get(output, "format", "png"), Get(output, "path", "None"))
        shape == [rows |-> Len(loaded.df.rows), columns |-> Len(loaded.df.columns)]
    IN  IF loaded.raised THEN [invoked |-> <<>>, raised |-> TRUE, error |-> loaded.error]
        ELSE IF styled.raised
        THEN [invoked |-> <<>>, raised |-> TRUE, error |-> styled.error]
        ELSE IF chart_type = "plotly" THEN
            IF lib = "chart_raises"
            THEN [invoked |-> <<"create_plotly_chart">>, raised |-> TRUE,
                  error |-> LibraryError("create_plotly_chart")]
            ELSE [invoked |-> <<"create_plotly_chart">>, raised |-> FALSE,
                  result |->
                    Merge(IF Get(output, "path", "None") # "None"
                          THEN [format |-> "html", path |-> output.path]
                          ELSE [format |-> "html", data |-> fig],
                          [chart_type |-> chart_type, data_shape |-> shape])]
        ELSE IF chart_type = "custom" /\ code = "None"
        THEN [invoked |-> <<>>, raised |-> TRUE,
              error |-> <<"Custom chart requires 'code' parameter">>]
        ELSE IF chart_type \notin ChartTypes \cup {"custom"}
        THEN [invoked |-> <<>>, raised |-> TRUE,
              error |-> <<"Unsupported chart type: ", chart_type>>]
        ELSE IF lib = "chart_raises"
        THEN [invoked |-> <<ChartFunction(chart_type)>>, raised |-> TRUE,
              error |-> LibraryError(ChartFunction(chart_type))]
        ELSE IF saved.raised
        THEN [invoked |-> <<ChartFunction(chart_type)>>, raised |-> TRUE,
              error |-> saved.error]
        ELSE [invoked |-> <<ChartFunction(chart_type)>>, raised |-> FALSE,
              result |-> Merge(saved.value,
                               [chart_type |-> chart_type, data_shape |-> shape])]

----------------------------------------------------------------------------
(* The routers: what each main's if/elif chain calls for a discriminator.   *)
(* Each returns the handlers it called and what they returned.              *)

ml_route(action, data, mm, fs, lib, io) ==
    LET call(handler, out) ==
            [invoked |-> <<handler>>, mm |-> out.mm, files |-> Get(out, "files", fs),
             result |-> out.result]
    IN  IF action = "train" THEN call("train", train(mm, data, lib))
        ELSE IF action = "predict" THEN call("predict", predict(mm, data, lib))
        ELSE IF action = "evaluate" THEN call("evaluate", evaluate(mm, data, lib))
        ELSE IF action = "tune" THEN call("tune", tune(mm, data, lib))
        ELSE IF action = "explain" THEN call("explain", explain(mm, data))
        ELSE IF action = "save"
        THEN call("save_model_to_file", save_model_to_file(mm, fs, data, io))
        ELSE IF action = "load"
        THEN call("load_model_from_file", load_model_from_file(mm, fs, data))
        ELSE [invoked |-> <<>>, mm |-> mm, files |-> fs,
              result |-> Failure(<<"Unknown action: ", action>>)]

stats_route(test_type, data, lib) ==
    IF test_type = "ttest" THEN [invoked |-> <<"ttest">>, result |-> ttest(data, lib)]
    ELSE IF test_type = "anova" THEN [invoked |-> <<"anova">>, result |-> anova(data, lib)]
    ELSE IF test_type = "chi_square"
    THEN [invoked |-> <<"chi_square">>, result |-> chi_square(data, lib)]
    ELSE IF test_type = "correlation"
    THEN [invoked |-> <<"correlation">>, result |-> correlation(data, lib)]
    ELSE IF test_type = "regression"
    THEN [invoked |-> <<"regression">>, result |-> regression(data, lib)]
    ELSE IF test_type = "mann_whitney"
    THEN [invoked |-> <<"mann_whitney">>, result |-> mann_whitney(data, lib)]
    ELSE [invoked |-> <<>>, result |-> Failure(<<"Unknown test type: ", test_type>>)]

\* A router that calls export_data whatever the type is
export_route_undispatched(export_type, data, fs, lib) ==
    [invoked |-> <<"export_data">>] @@ export_data(fs, data, lib)

export_route(export_type, data, fs, lib) ==
    IF export_type = "data"
    THEN [invoked |-> <<"export_data">>] @@ export_data(fs, data, lib)
    ELSE IF export_type = "html"
    THEN [invoked |-> <<"generate_html_report">>] @@ generate_html_report(fs, data, lib)
    ELSE IF export_type = "pdf"
    THEN [invoked |-> <<"generate_pdf_report">>] @@ generate_pdf_report(fs, data, lib)
    ELSE IF export_type = "notebook"
    THEN [invoked |-> <<"export_notebook">>] @@ export_notebook(fs, data, lib)
    ELSE [invoked |-> <<>>, files |-> fs,
          result |-> Failure(<<"Unknown export type: ", export_type>>)]

AnalyzeActions == {"load", "describe", "transform", "query", "execute"}

\* The handler that the branch of an action calls on the loaded table (for
\* load, load_data itself)
AnalyzeHandler(action) ==
    IF action = "load" THEN "load_data"
    ELSE IF action = "describe" THEN "describe_data"
    ELSE IF action = "transform" THEN "transform_data"
    ELSE IF action = "query" THEN "execute_query"
    ELSE "execute_code"

\* The branch of analyze main for an action: load_data, then the handler of
\* the action, up to the response or the exception; for transform, up to the
\* call of transform_data, with the table it is called on.  printed is what
\* the script of execute wrote to standard output, exits whether it ended
\* the process.
analyze_route(action, request) ==
    LET loaded == load_data(Get(request, "source", "None"),
                            Get(request, "source_type", "None"))
        queried == execute_query(loaded.df, Get(request, "query", None))
        executed == execute_code(loaded.df, Get(request, "code", "None"))
        ok(value) == [invoked |-> <<AnalyzeHandler(action)>>, raised |-> FALSE,
                      response |-> [success |-> TRUE, result |-> value]]
        raise(error) == [invoked |-> <<AnalyzeHandler(action)>>, raised |-> TRUE,
                         error |-> error]
        script == action = "execute" /\ ~loaded.raised
    IN  [printed |-> IF script THEN executed.printed ELSE <<>>,
         exits |-> script /\ executed.exits]
        @@
        IF action \notin AnalyzeActions
        THEN [invoked |-> <<>>, raised |-> FALSE,
              response |-> Failure(<<"Unknown action: ", action>>)]
        ELSE IF loaded.raised
        THEN [invoked |-> IF action = "load" THEN <<"load_data">> ELSE <<>>,
              raised |-> TRUE, error |-> loaded.error]
        ELSE IF action = "load" THEN ok(serialize_dataframe(loaded.df, MaxPreviewRows))
        ELSE IF action = "describe" THEN ok(describe_data(loaded.df))
        ELSE IF action = "transform"
        THEN [invoked |-> <<"transform_data">>, raised |-> FALSE, df |-> loaded.df]
        ELSE IF action = "query" THEN
            IF queried.raised THEN raise(queried.error)
            ELSE ok(serialize_dataframe(queried.df, MaxPreviewRows))
        ELSE IF executed.raised THEN raise(executed.error)
        ELSE IF "index" \in DOMAIN executed.value
        THEN ok(serialize_dataframe(executed.value, MaxPreviewRows))
        ELSE ok(executed.value)

----------------------------------------------------------------------------
(* What a process can find on standard input *)

Helpers == {"ml", "stats", "export", "analyze", "visualize"}

\* The name of the discriminator field of each helper
Discriminator(h) ==
    IF h \in {"ml", "analyze"} THEN "action"
    ELSE IF h = "stats" THEN "test"
    ELSE IF h = "export" THEN "type"
    ELSE "chart_type"

\* The dicts of ds, each with key bound to one of Vals
With(ds, key, Vals) == {Merge(d, [k \in {key} |-> v]) : d \in ds, v \in Vals}

MLRequests ==
    {[action |-> "train", data |-> d] :
        d \in TrainData \cup {[X |-> "X1", y |-> "y1", algorithm |-> a] : a \in Algorithms}}
    \cup {[action |-> "predict", data |-> d] : d \in PredictData}
    \cup {[action |-> "evaluate", data |-> d] : d \in EvaluateData}
    \cup {[action |-> "tune", data |-> d] : d \in TuneData}
    \cup {[action |-> "explain", data |-> d] : d \in ExplainData}
    \cup {[action |-> "save", data |-> d] : d \in SaveData}
    \cup {[action |-> "load", data |-> d] : d \in LoadData \cup {[filepath |-> "f1"]}}
    \cup {[action |-> "retrain", data |-> d] : d \in TrainOk}
    \cup {[data |-> d] : d \in TrainOk}
    \cup {[action |-> a] : a \in {"train", "predict", "Train"}}

\* The groups of an anova request: three groups of five, unequal groups, one
\* value a group, no variance at all, no variance within the groups, an empty
\* group, one group, none
AnovaGroups ==
    {<<<<0, 0, 0, 0, 1>>, <<0, 0, 1, 1, 1>>, <<1, 1, 1, 1, 2>>>>,
     <<<<1, 2, 3>>, <<4, 5, 6, 7>>>>,
     <<<<1>>, <<2>>>>,
     <<<<3, 3>>, <<3, 3>>>>,
     <<<<1, 1>>, <<2, 2>>, <<4, 4>>>>,
     <<<<1, 2, 3>>, <<>>>>,
     <<<<>>, <<>>>>,
     <<<<1, 2, 3>>>>,
     <<>>}

\* Any other request value that is a list is given by its length
StatsRequests ==
    {[test |-> "ttest", data |-> d] :
        d \in {[group1 |-> 5, group2 |-> 5], [group1 |-> 5], [group1 |-> 5, group2 |-> 0],
               [group2 |-> 5]}}
    \cup {[test |-> "anova", data |-> d] :
        d \in {[groups |-> g] : g \in AnovaGroups} \cup {EmptyDict}}
    \cup {[test |-> "chi_square", data |-> d] : d \in {[observed |-> 4], EmptyDict}}
    \cup {[test |-> "correlation", data |-> d] :
        d \in {[x |-> 5, y |-> 5], [x |-> 5, y |-> 5, method |-> "spearman"], [x |-> 5]}}
    \cup {[test |-> "regression", data |-> d] : d \in {[x |-> 5, y |-> 5], [y |-> 5]}}
    \cup {[test |-> "mann_whitney", data |-> d] :
        d \in {[group1 |-> 5, group2 |-> 4], [group1 |-> 5]}}
    \cup {[test |-> "wilcoxon", data |-> [group1 |-> 5, group2 |-> 4]],
          [data |-> [group1 |-> 5, group2 |-> 5]], [test |-> "ttest"]}

\* The lists of at most n elements of S
Lists(S, n) == UNION {[1..k -> S] : k \in 0..n}

\* The output paths: in a directory, in the current one, two levels down
ExportPaths == {<<"out", "f">>, <<"f">>, <<"out", "sub", "f">>}

\* pd.DataFrame(data['data']) of the tables a request can hold: integers,
\* strings, strings that read as numbers, floats with a missing value, an
\* empty string, no rows, nothing at all
Frames ==
    {[columns |-> <<"a", "b">>,
      rows |-> <<<<Cell("int", "1"), Cell("str", "x")>>,
                 <<Cell("int", "2"), Cell("str", "y")>>>>],
     [columns |-> <<"id">>, rows |-> <<<<Cell("str", "001")>>, <<Cell("str", "2")>>>>],
     [columns |-> <<"v">>, rows |-> <<<<Cell("float", "1.5")>>, <<Cell("nan", "")>>>>],
     [columns |-> <<"s">>, rows |-> <<<<Cell("str", "x")>>, <<Cell("str", "")>>>>],
     [columns |-> <<"a">>, rows |-> <<>>],
     [columns |-> <<>>, rows |-> <<>>]}

\* The sections of a report: one of each kind, a section that relies on the
\* defaults, one of a kind the generators do not know, a table without
\* content.  The metrics section carries a key the generators ignore.
Sections ==
    {[type |-> "text", title |-> "Summary", content |-> "c_text"],
     [content |-> "c_plain"],
     [type |-> "table", content |-> "c_table"],
     [type |-> "metrics", layout |-> "grid",
      content |-> <<[label |-> "L1", value |-> "V1"], [label |-> "L2"]>>],
     [type |-> "plot", content |-> "c_plot"],
     [type |-> "code", content |-> "c_code"],
     [type |-> "alert", content |-> "c_alert", alert_type |-> "warning"],
     [type |-> "video", content |-> "c_video"],
     [type |-> "table"]}

MaxSections == 2

\* The cells of a notebook: prose, code, a cell that relies on the defaults,
\* a cell of a type export_notebook does not know
Cells ==
    {[type |-> "markdown", content |-> "c_prose"],
     [type |-> "code", content |-> "c_code"],
     [content |-> "c_plain"],
     [type |-> "code"],
     [type |-> "raw", content |-> "c_raw"]}

MaxCells == 2

ExportRequests ==
    {[type |-> "data", data |-> [data |-> frame, filepath |-> p]] :
        frame \in Frames, p \in ExportPaths}
    \cup {[type |-> "data",
           data |-> [data |-> frame, filepath |-> <<"out", "f">>, format |-> f]] :
        frame \in Frames, f \in {"csv", "json", "excel", "xml"}}
    \cup {[type |-> t, data |-> [sections |-> sections, filepath |-> p]] :
        t \in {"html", "pdf"}, sections \in Lists(Sections, MaxSections), p \in ExportPaths}
    \cup {[type |-> "notebook", data |-> [cells |-> cells, filepath |-> p]] :
        cells \in Lists(Cells, MaxCells), p \in ExportPaths}
    \cup {[type |-> t, data |-> d] :
        t \in {"data", "html", "pdf", "notebook", "docx"},
        d \in {[filepath |-> <<"out", "f">>, title |-> "Report"], EmptyDict}}
    \cup {[data |-> [filepath |-> <<"out", "f">>]], [type |-> "data"]}

TransformStepsKnown ==
    {[operation |-> "filter", query |-> [column |-> "a", gt |-> 1]],
     [operation |-> "select", columns |-> <<"a">>],
     [operation |-> "select", columns |-> <<"z">>],
     [operation |-> "sort", by |-> "b"],
     [operation |-> "sort", by |-> "a", ascending |-> FALSE],
     [operation |-> "groupby", by |-> "b", agg |-> "a"],
     [operation |-> "rename", columns |-> <<"a", "c">>],
     [operation |-> "drop", columns |-> <<"b">>],
     [operation |-> "drop", index |-> <<0>>],
     [operation |-> "fillna", value |-> 0],
     [operation |-> "fillna", method |-> "ffill"],
     [operation |-> "astype", dtypes |-> [b |-> "int"]],
     [operation |-> "astype", dtypes |-> [a |-> "bool"]]}

TransformSteps ==
    TransformStepsKnown \cup {[operation |-> "pivot"], [columns |-> <<"a">>]}

\* The longest list of transformations of a request
MaxTransformations == 2

AnalyzeSources ==
    {[source |-> "t1", source_type |-> "memory"], [source |-> "t2", source_type |-> "csv"],
     [source |-> "t1", source_type |-> "xml"], [source |-> "gone", source_type |-> "csv"],
     [source |-> "t1"]}

AnalyzeRequests ==
    With(AnalyzeSources, "action", {"load", "describe", "summary"})
    \cup AnalyzeSources
    \cup {Merge(d, [action |-> "transform", transformations |-> l]) :
            d \in {[source |-> "t1", source_type |-> "memory"],
                   [source |-> "t2", source_type |-> "csv"]},
            l \in Lists(TransformSteps, MaxTransformations)}
    \cup {[source |-> "t1", source_type |-> "memory", action |-> "transform"],
          [source |-> "gone", source_type |-> "csv", action |-> "transform",
           transformations |-> <<[operation |-> "pivot"]>>]}
    \cup {Merge(d, [action |-> "query", query |-> [column |-> c, gt |-> 1]]) :
            d \in AnalyzeSources, c \in {"a", "z"}}
    \cup {[source |-> "t1", source_type |-> "memory", action |-> "query"]}
    \cup {Merge(d, [action |-> "execute", code |-> c]) :
            d \in AnalyzeSources,
            c \in {"result = df.shape", "df = df.head(1)", "pass", "raise",
                   "print(df.shape)", "raise SystemExit",
                   "df = df.head(1); result = df.shape"}}
    \cup {[source |-> "t1", source_type |-> "memory", action |-> "execute"]}
    \cup {[source |-> t, source_type |-> "csv", action |-> "load"] : t \in {"t100", "t101"}}
    \cup {[source |-> "t101", source_type |-> "csv", action |-> "query",
           query |-> [column |-> "a", gt |-> g]] : g \in {0, 1}}
    \cup {[source |-> "t101", source_type |-> "csv", action |-> "execute", code |-> c] :
            c \in {"pass", "df = df.head(1)"}}
    \cup {[source |-> "t101", source_type |-> "csv", action |-> "transform",
           transformations |-> l] :
            l \in {<<>>, <<[operation |-> "drop", index |-> <<0>>]>>}}

VisualizeRequests ==
    {Merge(Merge(d, c), o) :
        d \in {[source |-> "t1", source_type |-> "memory"],
               [source |-> "gone", source_type |-> "csv"], [source |-> "t1"]},
        c \in Opt("chart_type", ChartTypes \cup {"custom", "plotly", "pie"}),
        o \in {EmptyDict, [output |-> [format |-> "svg"]],
               [output |-> [format |-> "png", path |-> "out.png"]],
               [output |-> [format |-> "gif"]],
               [output |-> [format |-> "svg"], code |-> "fig = plt.figure()"],
               [output |-> [format |-> "svg"], style |-> [theme |-> "dark"]],
               [output |-> [format |-> "svg"], style |-> [palette |-> "nosuch"]]}}

Requests(h) ==
    IF h = "ml" THEN MLRequests
    ELSE IF h = "stats" THEN StatsRequests
    ELSE IF h = "export" THEN ExportRequests
    ELSE IF h = "analyze" THEN AnalyzeRequests
    ELSE VisualizeRequests

\* Standard input: a JSON object, JSON that is no object, or no JSON at all
Stdin(h) ==
    {[kind |-> "object", value |-> r] : r \in Requests(h)}
    \cup {[kind |-> "array", value |-> EmptyDict], [kind |-> "invalid", value |-> EmptyDict]}

----------------------------------------------------------------------------
(* One process of a helper: main reads one request from standard input,     *)
(* routes it, prints one response and exits.                                *)

\* The p-values and the mean differences (the pooled deviation being 1.0) the
\* numeric library may come up with: around each threshold, and far from it
StatsLib ==
    LET PValues == {0, F(1, 1000) - 1, F(1, 1000), F(1, 100), F(5, 100) - 1,
                    F(5, 100), F(5, 100) + 1, Unit}
        Near == {0, F(2, 10) - 1, F(2, 10), F(2, 10) + 1, F(5, 10) - 1, F(5, 10),
                 F(5, 10) + 1, F(8, 10) - 1, F(8, 10), F(8, 10) + 1, 2 * Unit}
        MeanDiffs == Near \cup {-d : d \in Near}
        Base == [raises |-> FALSE, statistic |-> F(1, 2), pvalue |-> F(1, 100),
                 mean_diff |-> F(1, 2), pooled_std |-> Unit, n |-> 4]
    IN  {[Base EXCEPT !.pvalue = p] : p \in PValues}
        \cup {[Base EXCEPT !.mean_diff = m] : m \in MeanDiffs}
        \cup {[Base EXCEPT !.raises = TRUE], [Base EXCEPT !.statistic = 0],
              [Base EXCEPT !.pooled_std = 0]}

ExportLib == {"ok", "raises", "not_installed"}

VisualizeLib == {"ok", "chart_raises"}

\* The files a process finds.  The ML helper: none, one that an earlier
\* process saved, one that pickle cannot load.  The export helper: nothing,
\* the directory out, a file named out.
InitialFiles(h) ==
    IF h = "ml"
    THEN LET earlier == train(ModelManager,
                              [X |-> "X1", y |-> "y1", algorithm |-> "random_forest",
                               model_id |-> "m1"], "ok").mm
         IN  {EmptyDict,
              save_model_to_file(earlier, EmptyDict,
                                 [model_id |-> "m1", filepath |-> "f1"], "ok").files,
              [f1 |-> Corrupt]}
    ELSE IF h = "export"
    THEN {EmptyDict,
          Put(EmptyDict, <<"out">>, Directory),
          Put(EmptyDict, <<"out">>, [cls |-> "text"])}
    ELSE {EmptyDict}

Init ==
    /\ helper \in Helpers
    /\ stdin \in Stdin(helper)
    /\ files \in InitialFiles(helper)
    /\ model_manager = ModelManager
    /\ input_data = EmptyDict
    /\ result = None
    /\ trained = {}
    /\ pc = "read"
    /\ stdout = <<>>
    /\ exit_code = -1
    /\ invoked = <<>>
    /\ df = NoTable
    /\ df_result = NoTable
    /\ i = 0

\* print(json.dumps(response)), after what a script has printed, and the
\* end of the process with status code
ExitAfter(printed, response, code) ==
    /\ result' = response
    /\ stdout' = Append(stdout \o printed, response)
    /\ exit_code' = code
    /\ pc' = "exited"

\* print(json.dumps(response)) and the end of the process with status code
Exit(response, code) == ExitAfter(<<>>, response, code)

\* A SystemExit raised inside a handler: 'except Exception' does not catch it,
\* the process ends with the status of the exception and prints no response
Escape(printed, code) ==
    /\ stdout' = stdout \o printed
    /\ exit_code' = code
    /\ pc' = "escaped"
    /\ UNCHANGED result

\* The except clause of main: the analyze and visualize helpers add the
\* traceback; every helper exits with status 1
Except(message) ==
    IF helper \in {"analyze", "visualize"}
    THEN Exit([success |-> FALSE, error |-> message, traceback |-> "Traceback"], 1)
    ELSE Exit(Failure(message), 1)

\* input_data = json.loads(sys.stdin.read()) and the first input_data.get
ReadInput ==
    /\ pc = "read"
    /\ IF stdin.kind = "object"
       THEN /\ input_data' = stdin.value
            /\ pc' = "route"
            /\ UNCHANGED <<result, stdout, exit_code>>
       ELSE /\ IF stdin.kind = "invalid"
               THEN Except(<<"Expecting value: line 1 column 1 (char 0)">>)
               ELSE Except(<<"'list' object has no attribute 'get'">>)
            /\ UNCHANGED input_data
    /\ UNCHANGED <<model_manager, files, trained, helper, stdin, invoked, df, df_result, i>>

MLMain ==
    /\ pc = "route"
    /\ helper = "ml"
    /\ \E lib \in Lib, io \in Io :
        LET out == ml_route(Get(input_data, "action", "None"),
                            Get(input_data, "data", EmptyDict),
                            model_manager, files, lib, io)
        IN  /\ model_manager' = out.mm
            /\ files' = out.files
            /\ invoked' = out.invoked
            /\ trained' = IF out.invoked \in {<<"train">>, <<"load_model_from_file">>}
                             /\ out.result.success
                          THEN trained \cup {out.result.model_id}
                          ELSE trained
            /\ Exit(out.result, 0)
    /\ UNCHANGED <<input_data, helper, stdin, df, df_result, i>>

StatsMain ==
    /\ pc = "route"
    /\ helper = "stats"
    /\ \E lib \in StatsLib :
        \E out \in {stats_route(Get(input_data, "test", "None"),
                                Get(input_data, "data", EmptyDict), lib)} :
            /\ invoked' = out.invoked
            /\ Exit(out.result, 0)
    /\ UNCHANGED <<model_manager, files, trained, input_data, helper, stdin,
                   df, df_result, i>>

ExportMain ==
    /\ pc = "route"
    /\ helper = "export"
    /\ \E lib \in ExportLib :
        LET out == export_route(Get(input_data, "type", "None"),
                                Get(input_data, "data", EmptyDict), files, lib)
        IN  /\ invoked' = out.invoked
            /\ files' = out.files
            /\ Exit(out.result, 0)
    /\ UNCHANGED <<model_manager, trained, input_data, helper, stdin,
                   df, df_result, i>>

\* The if/elif chain of analyze main; for transform, up to the first line of
\* transform_data (df_result = df.copy())
AnalyzeMain ==
    /\ pc = "route"
    /\ helper = "analyze"
    /\ LET action == Get(input_data, "action", "None")
           out == analyze_route(action, input_data)
       IN  /\ invoked' = out.invoked
           /\ IF out.exits
              THEN Escape(out.printed, 0) /\ UNCHANGED <<df, df_result, i>>
              ELSE IF out.raised
              THEN Except(out.error) /\ UNCHANGED <<df, df_result, i>>
              ELSE IF action = "transform"
              THEN /\ df' = out.df
                   /\ df_result' = out.df
                   /\ i' = 1
                   /\ pc' = "transform"
                   /\ UNCHANGED <<result, stdout, exit_code>>
              ELSE /\ ExitAfter(out.printed, out.response,
                                  IF action \in AnalyzeActions THEN 0 ELSE 1)
                   /\ UNCHANGED <<df, df_result, i>>
    /\ UNCHANGED <<model_manager, files, trained, input_data, helper, stdin>>

\* A loop that takes the steps from the last to the first
NextTransform_backwards(transformations, k) ==
    transformations[Len(transformations) + 1 - k]

\* The step the loop of transform_data takes at its k-th pass
NextTransform(transformations, k) == transformations[k]

\* A pass of the loop that works on the table it was given, not on a copy
AnalyzeTransform_in_place ==
    /\ pc = "transform"
    /\ LET transformations == Get(input_data, "transformations", <<>>)
       IN  /\ i <= Len(transformations)
           /\ LET out == ApplyTransform(df_result, transformations[i])
              IN  IF out.raised
                  THEN Except(out.error) /\ UNCHANGED <<df, df_result, i>>
                  ELSE /\ df_result' = out.df
                       /\ df' = out.df
                       /\ i' = i + 1
                       /\ UNCHANGED <<result, stdout, exit_code, pc>>
    /\ UNCHANGED <<model_manager, files, trained, input_data, helper, stdin, invoked>>

\* One pass of the loop of transform_data
AnalyzeTransform ==
    /\ pc = "transform"
    /\ LET transformations == Get(input_data, "transformations", <<>>)
       IN  /\ i <= Len(transformations)
           /\ LET out == ApplyTransform(df_result, NextTransform(transformations, i))
              IN  IF out.raised
                  THEN Except(out.error) /\ UNCHANGED <<df_result, i>>
                  ELSE /\ df_result' = out.df
                       /\ i' = i + 1
                       /\ UNCHANGED <<result, stdout, exit_code, pc>>
    /\ UNCHANGED <<model_manager, files, trained, input_data, helper, stdin, invoked, df>>

\* transform_data returns; main serializes what it returned and prints it
AnalyzeTransformed ==
    /\ pc = "transform"
    /\ i > Len(Get(input_data, "transformations", <<>>))
    /\ Exit([success |-> TRUE,
             result |-> serialize_dataframe(df_result, MaxPreviewRows)], 0)
    /\ UNCHANGED <<model_manager, files, trained, input_data, helper, stdin, invoked,
                   df, df_result, i>>

VisualizeMain ==
    /\ pc = "route"
    /\ helper = "visualize"
    /\ \E lib \in VisualizeLib :
        LET out == visualize(input_data, lib)
        IN  /\ invoked' = out.invoked
            /\ IF out.raised THEN Except(out.error)
               ELSE Exit([success |-> TRUE, result |-> out.result], 0)
    /\ UNCHANGED <<model_manager, files, trained, input_data, helper, stdin,
                   df, df_result, i>>

Next ==
    \/ ReadInput
    \/ MLMain
    \/ StatsMain
    \/ ExportMain
    \/ AnalyzeMain
    \/ AnalyzeTransform
    \/ AnalyzeTransformed
    \/ VisualizeMain

Spec == Init /\ [][Next]_vars

\* A process that can take a step takes it: each helper is a sequential
\* program whose library calls return or raise
FairSpec == Spec /\ WF_vars(Next)

----------------------------------------------------------------------------
(* Properties of the model registry *)

\* The registry entry of model_id, None standing for an absent component
Entry(mm, model_id) ==
    [model |-> get_model(mm, model_id), scaler |-> get_scaler(mm, model_id),
     encoder |-> get_encoder(mm, model_id), metadata |-> get_metadata(mm, model_id)]

\* What a successful train of data produces
Produced(data) ==
    LET task_type == Get(data, "task_type", "regression")
        scaler == IF Get(data, "scale", FALSE) THEN StandardScaler(data.X) ELSE None
        encoder == IF task_type = "classification" THEN LabelEncoder(data.y) ELSE None
    IN  [model |-> Fit(create_model(data.algorithm, task_type, "ok").cls,
                       data.X, scaler, data.y, encoder),
         scaler |-> scaler, encoder |-> encoder,
         metadata |-> [algorithm |-> data.algorithm, task_type |-> task_type,
                       fitted_on |-> data.X]]

\* C3 (as claimed): a successful train with a model identifier that is already
\* in the registry leaves, for that identifier, exactly the model, scaler,
\* encoder and metadata that this train produced, an absent component being
\* absent, so that predict and evaluate read nothing of an earlier training.
C3_RetrainOverwritesWholeEntry ==
    [][(/\ input_data'.action = "train"
        /\ result'.success
        /\ result'.model_id \in DOMAIN model_manager.models)
       => Entry(model_manager', result'.model_id) = Produced(input_data'.data)]_vars

\* C4: predict, evaluate, explain and save, with their required fields present
\* and a model identifier that no train or load has succeeded for, answer
\* 'Model not found: <id>' and leave the registry as it was.
RequiredFields(action) ==
    IF action = "predict" THEN {"X", "model_id"}
    ELSE IF action = "evaluate" THEN {"X", "y", "model_id"}
    ELSE IF action = "explain" THEN {"model_id"}
    ELSE {"model_id", "filepath"}

C5_TuneLeavesRegistry ==
    [][input_data'.action = "tune" => model_manager' = model_manager]_vars

\* C5 witness: a tune has succeeded in a process whose registry holds a model.
C5_Witness ==
    /\ input_data.action = "tune"
    /\ result.success
    /\ DOMAIN model_manager.models # {}

\* C6 (as claimed): a successful save writes the entry of its identifier, and a
\* successful load of a file leaves, under the identifier it loads to, an entry
\* equal to the saved one, a component absent in the file being absent.
C6_SaveLoadRoundTrip ==
    /\ (input_data.action = "save" /\ result.success)
        => files[result.filepath] = Entry(model_manager, result.model_id)
    /\ (input_data.action = "load" /\ result.success)
        => Entry(model_manager, result.model_id) = files[result.filepath]

----------------------------------------------------------------------------
(* Properties of one process *)

\* The handler documented for each discriminator value of each helper
Documented ==
    [ml |-> [train |-> "train", predict |-> "predict", evaluate |-> "evaluate",
             tune |-> "tune", explain |-> "explain", save |-> "save_model_to_file",
             load |-> "load_model_from_file"],
     stats |-> [ttest |-> "ttest", anova |-> "anova", chi_square |-> "chi_square",
                correlation |-> "correlation", regression |-> "regression",
                mann_whitney |-> "mann_whitney"],
     export |-> [data |-> "export_data", html |-> "generate_html_report",
                 pdf |-> "generate_pdf_report", notebook |-> "export_notebook"],
     analyze |-> [load |-> "load_data", describe |-> "describe_data",
                  transform |-> "transform_data", query |-> "execute_query",
                  execute |-> "execute_code"],
     visualize |-> [line |-> "create_line_chart", bar |-> "create_bar_chart",
                    scatter |-> "create_scatter_plot", histogram |-> "create_histogram",
                    heatmap |-> "create_heatmap", boxplot |-> "create_boxplot",
                    custom |-> "create_custom_plot", plotly |-> "create_plotly_chart"]]

\* The discriminator value of the request ("None" for a missing one)
Requested == Get(stdin.value, Discriminator(helper), "None")

\* The process has answered a request that is a JSON object
Answered == pc = "exited" /\ stdin.kind = "object"

\* The router has done what is documented for the request
Dispatched ==
    IF Requested \in DOMAIN Documented[helper]
    THEN invoked = <<Documented[helper][Requested]>>
    ELSE /\ invoked = <<>>
         /\ result.success = FALSE
         /\ Requested \in Range(result.error)

\* The data of the request loads, and its style applies
Loads ==
    ~load_data(Get(stdin.value, "source", "None"),
               Get(stdin.value, "source_type", "None")).raised

Styles ==
    LET style == Get(stdin.value, "style", EmptyDict)
    IN  ~apply_style(Get(style, "theme", "default"), style).raised

C2_FailureExitsNonZero ==
    pc = "exited"
    => /\ stdout = <<result>>
       /\ result.success = FALSE => "error" \in DOMAIN result /\ exit_code # 0
       /\ exit_code = 0 => result.success = TRUE

\* The transformation list of the request
Transformations == Get(stdin.value, "transformations", <<>>)

\* The left fold of the loop body over steps, starting from table; a step that
\* raises ends it
RECURSIVE FoldLeft(_, _)
FoldLeft(table, steps) ==
    IF steps = <<>> THEN Return(table)
    ELSE LET before == FoldLeft(table, SubSeq(steps, 1, Len(steps) - 1))
         IN  IF before.raised THEN before
             ELSE ApplyTransform(before.df, steps[Len(steps)])

\* C7: transform_data applies the steps in list order, each to the output of
\* the one before and each once: before its i-th pass the table it works on is
\* the left fold of the first i-1 steps over the loaded table, and the response
\* is the serialized left fold of the whole list (or the error of the first
\* step that raises).
C7_TransformIsLeftFold ==
    /\ (helper = "analyze" /\ pc = "transform")
        => /\ i \in 1..(Len(Transformations) + 1)
           /\ FoldLeft(df, SubSeq(Transformations, 1, i - 1)) = Return(df_result)
    /\ (helper = "analyze" /\ pc = "exited" /\ invoked = <<"transform_data">>)
        => LET out == FoldLeft(df, Transformations)
           IN  IF out.raised
               THEN result.success = FALSE /\ result.error = out.error
               ELSE result = [success |-> TRUE,
                              result |-> serialize_dataframe(out.df, MaxPreviewRows)]

\* C7 witness: a list [A, B] has been answered with a table that differs from
\* the one [B, A] gives on the same data, neither order failing.
C7_Witness ==
    /\ helper = "analyze" /\ pc = "exited" /\ invoked = <<"transform_data">>
    /\ Len(Transformations) = 2
    /\ result.success
    /\ LET swapped == FoldLeft(df, <<Transformations[2], Transformations[1]>>)
       IN  /\ ~swapped.raised
           /\ result.result # serialize_dataframe(swapped.df, MaxPreviewRows)

\* The operation names transform_data knows
KnownOperations ==
    {"filter", "select", "sort", "groupby", "rename", "drop", "fillna", "astype"}

OperationOf(transform) == Get(transform, "operation", "None")

\* The positions of the steps with an unrecognized operation name
UnknownAt(steps) == {k \in 1..Len(steps) : OperationOf(steps[k]) \notin KnownOperations}

\* The process has answered a transform request with an unrecognized step
AnsweredUnknownStep ==
    /\ Answered
    /\ helper = "analyze"
    /\ Requested = "transform"
    /\ UnknownAt(Transformations) # {}

\* The request has failed as a whole
FailedAsAWhole ==
    /\ stdout = <<result>>
    /\ result.success = FALSE
    /\ "result" \notin DOMAIN result
    /\ exit_code = 1

\* C8 (as claimed): a transform request with an unrecognized operation name at
\* whatever position fails as a whole, with success=false, an error naming the
\* operation, no result table and exit status 1.
C8_UnknownStepFailsNamingIt ==
    AnsweredUnknownStep
    => /\ FailedAsAWhole
       /\ \E k \in UnknownAt(Transformations) :
            OperationOf(Transformations[k]) \in Range(result.error)

\* C8 (amended): such a request always fails as a whole, with success=false,
\* no result table and exit status 1; the error names the first unrecognized
\* operation when the data loads and every step before it succeeds, and is
\* the error of the load or of the first failing step otherwise.
C8_UnknownStepFails ==
    AnsweredUnknownStep
    => LET first == CHOOSE k \in UnknownAt(Transformations) :
                        \A j \in UnknownAt(Transformations) : k <= j
       IN  /\ FailedAsAWhole
           /\ (Loads /\ ~FoldLeft(df, SubSeq(Transformations, 1, first - 1)).raised)
                => OperationOf(Transformations[first]) \in Range(result.error)

\* C8 witness: the unrecognized operation came second, after a step that
\* succeeded, and the response is the failure naming it.
C8_Witness ==
    /\ AnsweredUnknownStep
    /\ UnknownAt(Transformations) = {2}
    /\ i = 2
    /\ FailedAsAWhole
    /\ result.error = <<"Unsupported transformation: ", "pivot">>

\* C9: interpret_cohens_d gives every d the one bucket of |d|: negligible
\* below 0.2, small from 0.2 to below 0.5, medium from 0.5 to below 0.8, large
\* from 0.8 on; 0.2, 0.5 and 0.8 fall in the upper bucket, d and -d in the same.
C9_CohensDBuckets ==
    (/\ helper = "stats" /\ pc = "exited" /\ result.success
     /\ "effect_size" \in DOMAIN result
     /\ result.effect_size.type = "cohens_d")
    => LET d == result.effect_size.value
           magnitude == IF d < 0 THEN -d ELSE d
           bucket == result.effect_size.interpretation
       IN  /\ bucket = "negligible" <=> magnitude < F(2, 10)
           /\ bucket = "small" <=> F(2, 10) <= magnitude /\ magnitude < F(5, 10)
           /\ bucket = "medium" <=> F(5, 10) <= magnitude /\ magnitude < F(8, 10)
           /\ bucket = "large" <=> F(8, 10) <= magnitude

\* C9 witness: a t-test has reported d = -0.5, on a boundary, as medium.
C9_Witness ==
    /\ helper = "stats" /\ pc = "exited" /\ result.success
    /\ invoked = <<"ttest">>
    /\ result.effect_size.value = -F(5, 10)
    /\ result.effect_size.interpretation = "medium"

\* C10: every statistical test handler classifies its p-value (a number) at
\* the level 0.05 and no other: highly significant below 0.001, significant
\* from 0.001 to below 0.05, not significant from 0.05 on.
C10_PValueBands ==
    (helper = "stats" /\ pc = "exited" /\ result.success /\ result.pvalue # FloatNaN)
    => LET p == result.pvalue
           band == result.interpretation.band
       IN  /\ invoked \in {<<h>> : h \in {"ttest", "anova", "chi_square", "correlation",
                                         "regression", "mann_whitney"}}
           /\ result.interpretation.alpha = F(5, 100)
           /\ band = "highly significant" <=> p < F(1, 1000)
           /\ band = "significant" <=> F(1, 1000) <= p /\ p < F(5, 100)
           /\ band = "not significant" <=> F(5, 100) <= p

\* C10 witness: the regression handler has classified p = 0.05 exactly as not
\* significant at the level 0.05.
C10_Witness ==
    /\ helper = "stats" /\ pc = "exited" /\ result.success
    /\ invoked = <<"regression">>
    /\ result.pvalue = F(5, 100)
    /\ result.interpretation = [band |-> "not significant", p |-> F(5, 100),
                                alpha |-> F(5, 100)]

\* A successful answer of the anova handler, and the groups it was asked about
AnsweredAnova ==
    /\ Answered
    /\ helper = "stats"
    /\ invoked = <<"anova">>
    /\ result.success

AskedGroups == stdin.value.data.groups

\* C11 (as claimed): an ANOVA over k groups with N values in all reports the
\* degrees of freedom k-1 between and N-k within the groups, and an
\* eta-squared in [0,1] that is 0 when the total sum of squares is 0.
C11_AnovaDegreesOfFreedomAndEta ==
    AnsweredAnova
    => LET k == Len(AskedGroups)
           N == Sum([g \in DOMAIN AskedGroups |-> Len(AskedGroups[g])])
           eta == result.effect_size.value
       IN  /\ result.degrees_of_freedom = [between |-> k - 1, within |-> N - k]
           /\ eta # FloatNaN
           /\ 0 <= eta /\ eta <= Unit
           /\ SSTotal(AskedGroups) = 0 => eta = 0

\* C11 for groups none of which is empty: the same, and three groups of five
\* have 2 and 12 degrees of freedom.
C11_AnovaOfNonEmptyGroups ==
    (AnsweredAnova /\ \A g \in DOMAIN AskedGroups : Len(AskedGroups[g]) > 0)
    => LET k == Len(AskedGroups)
           N == Sum([g \in DOMAIN AskedGroups |-> Len(AskedGroups[g])])
           eta == result.effect_size.value
       IN  /\ result.degrees_of_freedom = [between |-> k - 1, within |-> N - k]
           /\ 0 <= eta /\ eta <= Unit
           /\ SSTotal(AskedGroups) = 0 => eta = 0
           /\ (k = 3 /\ N = 15) => result.degrees_of_freedom = [between |-> 2, within |-> 12]

\* A successful answer of a statistical test handler
AnsweredTest ==
    /\ Answered
    /\ helper = "stats"
    /\ result.success

Buckets == {"negligible", "small", "medium", "large"}

\* C12 (as claimed): each of the six handlers returns on success a test
\* statistic, a p-value and an effect size whose interpretation is one of
\* negligible, small, medium, large.
C12_StatisticPValueEffectBuckets ==
    AnsweredTest
    => /\ {"statistic", "pvalue", "effect_size"} \subseteq DOMAIN result
       /\ result.effect_size.interpretation \in Buckets

\* C12 (amended): each of the six handlers returns a p-value on success.
\* ttest, anova, chi_square, correlation and mann_whitney also return a
\* statistic and an effect size: ttest always one of the four buckets,
\* chi_square and mann_whitney one of the four buckets unless the effect size
\* is reported as type 'none' ('Not calculated'), anova one of small, medium,
\* large, correlation one of weak, moderate, strong.  regression returns
\* r_value and r_squared, and neither a statistic nor an effect size.
C12_StatisticPValueEffectPerHandler ==
    AnsweredTest
    => /\ "pvalue" \in DOMAIN result
       /\ invoked = <<"regression">>
            => /\ {"r_value", "r_squared"} \subseteq DOMAIN result
               /\ DOMAIN result \cap {"statistic", "effect_size"} = {}
       /\ invoked # <<"regression">>
            => /\ {"statistic", "effect_size"} \subseteq DOMAIN result
               /\ LET effect == result.effect_size
                  IN  /\ invoked = <<"ttest">>
                        => effect.type = "cohens_d" /\ effect.interpretation \in Buckets
                      /\ invoked = <<"chi_square">>
                        => \/ effect.type = "cramers_v" /\ effect.interpretation \in Buckets
                           \/ effect.type = "none" /\ effect.interpretation = "Not calculated"
                      /\ invoked = <<"mann_whitney">>
                        => \/ effect.type = "rank_biserial"
                              /\ effect.interpretation \in Buckets
                           \/ effect.type = "none" /\ effect.interpretation = "Not calculated"
                      /\ invoked = <<"anova">>
                        => effect.type = "eta_squared"
                           /\ effect.interpretation \in {"small", "medium", "large"}
                      /\ invoked = <<"correlation">>
                        => effect.type = "r"
                           /\ effect.interpretation \in {"weak", "moderate", "strong"}

\* C12 witness: mann_whitney has answered with a statistic, a p-value and a
\* rank-biserial effect size interpreted as large.
C12_Witness ==
    /\ AnsweredTest
    /\ invoked = <<"mann_whitney">>
    /\ {"statistic", "pvalue", "effect_size"} \subseteq DOMAIN result
    /\ result.effect_size.type = "rank_biserial"
    /\ result.effect_size.interpretation = "large"

\* A step of train or tune with an algorithm tag outside the enumeration
UnknownTagStep ==
    /\ input_data'.action \in {"train", "tune"}
    /\ "algorithm" \in DOMAIN input_data'.data
    /\ input_data'.data.algorithm \notin Algorithms

\* C13 (as claimed): train or tune with a tag that is none of the six fails
\* with success=false and the error 'Unknown algorithm: <tag>' and stores
\* nothing in the registry.
C13_UnknownAlgorithm ==
    [][UnknownTagStep
       => /\ result' = Failure(<<"Unknown algorithm: ", input_data'.data.algorithm>>)
          /\ model_manager' = model_manager]_vars

\* The fields train and tune read before they call create_model
ReadBeforeCreate(action) ==
    IF action = "train" THEN {"X", "y", "algorithm"}
    ELSE {"X", "y", "algorithm", "param_grid"}

\* C13 (amended): train or tune with a tag that is none of the six fails with
\* success=false and stores nothing in the registry; the error is
\* 'Unknown algorithm: <tag>' when the fields read before create_model are
\* present and the library calls before it (split, scaling, encoding) return,
\* and otherwise the KeyError of the missing field or the library's error.
C13_UnknownAlgorithmFails ==
    [][UnknownTagStep
       => LET action == input_data'.action
              data == input_data'.data
              unknown == Failure(<<"Unknown algorithm: ", data.algorithm>>)
          IN  /\ result'.success = FALSE
              /\ model_manager' = model_manager
              /\ IF ReadBeforeCreate(action) \subseteq DOMAIN data
                 THEN result' \in {unknown, Failure(LibraryError(action))}
                 ELSE \E key \in ReadBeforeCreate(action) \ DOMAIN data :
                        result' = Failure(KeyError(key))]_vars

\* C13 witness: with a model in the registry, a train with the tag 'bogus'
\* and its fields present has been answered 'Unknown algorithm: bogus'.
C13_Witness ==
    /\ input_data.action = "train"
    /\ {"X", "y", "algorithm"} \subseteq DOMAIN input_data.data
    /\ input_data.data.algorithm = "bogus"
    /\ result = Failure(<<"Unknown algorithm: ", "bogus">>)
    /\ DOMAIN model_manager.models # {}

\* The output format a visualization request asks for
RequestedFormat == Get(Get(stdin.value, "output", EmptyDict), "format", "png")

\* The visualize helper has answered a request for one of the six chart
\* kinds whose table loaded, whose style applied and whose chart function
\* returned a figure
AnsweredChart ==
    /\ Answered
    /\ helper = "visualize"
    /\ Requested \in {"line", "bar", "scatter", "histogram", "heatmap", "boxplot"}
    /\ Loads /\ Styles
    /\ invoked = <<Documented.visualize[Requested]>>
    /\ result.success \/ result.error # LibraryError(Documented.visualize[Requested])

\* C14 (as claimed): such a request with the output format png (the default)
\* or svg is answered success=true with result.format the requested format
\* and the image as data or as a written path.
C14_ChartImage ==
    (AnsweredChart /\ RequestedFormat \in {"png", "svg"})
    => /\ result.success
       /\ result.result.format = RequestedFormat
       /\ DOMAIN result.result \cap {"data", "path"} # {}

----------------------------------------------------------------------------
(* Properties of the export helper *)

\* The process answered a request with the success of handler
AnsweredExport(handler) ==
    /\ helper = "export"
    /\ pc = "exited"
    /\ invoked = <<handler>>
    /\ result.success

SectionKinds == {"text", "table", "metrics", "plot", "code", "alert"}

\* The texts of a document, in the order of the document
Texts(document) == [k \in 1..Len(document) |-> document[k].text]

\* a is b with some elements left out
RECURSIVE IsSubsequence(_, _)
IsSubsequence(a, b) ==
    IF a = <<>> THEN TRUE
    ELSE IF b = <<>> THEN FALSE
    ELSE IF Head(a) = Head(b) THEN IsSubsequence(Tail(a), Tail(b))
    ELSE IsSubsequence(a, Tail(b))

\* The texts that carry the metrics of a section: label and value apart in
\* the HTML, joined in one paragraph in the PDF
RECURSIVE MetricTexts(_, _)
MetricTexts(metrics, format) ==
    IF metrics = <<>> THEN <<>>
    ELSE LET label == Get(Head(metrics), "label", "Metric")
             value == Get(Head(metrics), "value", "N/A")
         IN  (IF format = "html" THEN <<label, value>>
              ELSE <<"<b>" \o label \o ":</b> " \o value>>)
             \o MetricTexts(Tail(metrics), format)

\* The contents of the sections of the kinds, in input order
RECURSIVE Contents(_, _, _)
Contents(sections, kinds, format) ==
    IF sections = <<>> THEN <<>>
    ELSE LET section == Head(sections)
             kind == Get(section, "type", "text")
         IN  (IF kind \notin kinds \/ "content" \notin DOMAIN section THEN <<>>
              ELSE IF kind = "metrics" THEN MetricTexts(section.content, format)
              ELSE <<section.content>>)
             \o Contents(Tail(sections), kinds, format)

\* The sections that put something into the document written in format
Rendered(sections, format) ==
    {k \in 1..Len(sections) :
        IF format = "html" THEN html_section(sections[k]) # <<>>
        ELSE pdf_section(sections[k]) # <<>>}

\* The report written in format holds the contents of its sections of the
\* kinds in input order
HoldsSections(handler, format, kinds) ==
    AnsweredExport(handler) =>
        LET sections == Get(input_data.data, "sections", <<>>)
            document == files[result.filepath].document
        IN  IsSubsequence(Contents(sections, kinds, format), Texts(document))

\* The section count of the response is the number of sections rendered
CountsRendered(handler, format) ==
    AnsweredExport(handler) =>
        result.sections
            = Cardinality(Rendered(Get(input_data.data, "sections", <<>>), format))

\* C15: the HTML and the PDF report hold, in input order, the content of
\* every section of the six kinds, and the section count of the response is
\* the number of sections rendered
C15_SectionsInBothFormats ==
    /\ HoldsSections("generate_html_report", "html", SectionKinds)
    /\ HoldsSections("generate_pdf_report", "pdf", SectionKinds)
    /\ CountsRendered("generate_html_report", "html")
    /\ CountsRendered("generate_pdf_report", "pdf")

\* The part of C15 that holds: the HTML report holds all six kinds, the PDF
\* report the text, table and metrics sections, and both count the sections
\* of the request
C15_SectionsOfTheBranches ==
    /\ HoldsSections("generate_html_report", "html", SectionKinds)
    /\ HoldsSections("generate_pdf_report", "pdf", {"text", "table", "metrics"})
    /\ CountsRendered("generate_html_report", "html")
    /\ \A handler \in {"generate_html_report", "generate_pdf_report"} :
          AnsweredExport(handler) =>
              result.sections = Len(Get(input_data.data, "sections", <<>>))

\* The cell_type and source an input cell asks for
AskedCell(cell_data) ==
    [cell_type |-> Get(cell_data, "type", "markdown"),
     source |-> Get(cell_data, "content", "")]

\* The input cell is prose or code
KnownCell(cell_data) == Get(cell_data, "type", "markdown") \in {"markdown", "code"}

\* The cells of the notebook written by the answered request
WrittenCells == files[result.filepath].cells

\* C16: after the title cell the notebook holds every input cell, in input
\* order, with its type and content, and the cells count of the response is
\* the number of cells written
C16_NotebookCells ==
    AnsweredExport("export_notebook") =>
        LET cells_data == Get(input_data.data, "cells", <<>>)
        IN  /\ Len(WrittenCells) = 1 + Len(cells_data)
            /\ WrittenCells[1].cell_type = "markdown"
            /\ \A k \in 1..Len(cells_data) : WrittenCells[k + 1] = AskedCell(cells_data[k])
            /\ result.cells = Len(WrittenCells)

\* C16 (amended): after the title cell the notebook holds the input cells of
\* type markdown or code (markdown when the type is absent), in input order,
\* with type and content; a cell of another type is left out; the cells count
\* of the response is the number of cells written, the title cell included
C16_NotebookCellsOfKnownTypes ==
    AnsweredExport("export_notebook") =>
        LET cells_data == Get(input_data.data, "cells", <<>>)
            known == SelectSeq(cells_data, KnownCell)
        IN  /\ Len(WrittenCells) = 1 + Len(known)
            /\ WrittenCells[1].cell_type = "markdown"
            /\ \A k \in 1..Len(known) : WrittenCells[k + 1] = AskedCell(known[k])
            /\ result.cells = Len(WrittenCells)

\* A notebook of a code cell followed by a prose cell was written
C16_Witness ==
    /\ AnsweredExport("export_notebook")
    /\ Len(Get(input_data.data, "cells", <<>>)) = 2
    /\ Len(WrittenCells) = 3
    /\ WrittenCells[2] = new_code_cell("c_code")
    /\ WrittenCells[3] = new_markdown_cell("c_prose")

\* The step of the export helper that runs the handler of a request with an
\* output path
ExportStep ==
    /\ helper = "export"
    /\ pc = "route"
    /\ pc' = "exited"
    /\ invoked' # <<>>
    /\ "filepath" \in DOMAIN Get(input_data, "data", EmptyDict)

\* The paths a step created that are directories
CreatedDirectories ==
    {p \in DOMAIN files' \ DOMAIN files : files'[p].cls = "Directory"}

\* C17: every export handler makes the parent directory of the output path
\* before it opens the file: a handler that succeeds leaves the file in an
\* existing directory, no handler fails for want of the parent directory,
\* and a path without a directory part is written in the current directory,
\* no directory being made
C17_ParentDirectoryBeforeWrite ==
    [][ExportStep =>
          LET filepath == input_data.data.filepath
          IN  /\ result'.success =>
                    /\ filepath \in DOMAIN files'
                    /\ files'[filepath].cls # "Directory"
                    /\ isdir(files', dirname(filepath))
              /\ ~result'.success =>
                    result'.error # <<"[Errno 2] No such file or directory: ">> \o filepath
              /\ dirname(filepath) = <<>> => CreatedDirectories = {}
              /\ DOMAIN files \subseteq DOMAIN files']_vars

\* One of the four handlers has written a file two directories down, where
\* no directory out/sub existed when the process started
C17_Witness ==
    /\ \E handler \in {"export_data", "generate_html_report",
                        "generate_pdf_report", "export_notebook"} :
          AnsweredExport(handler)
    /\ result.filepath = <<"out", "sub", "f">>
    /\ isdir(files, <<"out", "sub">>)
    /\ result.filepath \in DOMAIN files

----------------------------------------------------------------------------
(* Properties of the output of one process *)

\* The request runs a script given by the caller
RunsScript == helper = "analyze" /\ Get(stdin.value, "action", "None") = "execute"

\* C18: every process ends having written one JSON object, a response, and
\* nothing else to standard output, no exception having escaped main
C18_OneObjectOnEveryPath ==
    <>[](pc = "exited" /\ Len(stdout) = 1 /\ "success" \in DOMAIN stdout[1])

\* The part of C18 that holds: every process ends, and one that did not run
\* a script of the caller has written exactly its response
C18_OneObjectWithoutScript ==
    /\ <>[](pc \in {"exited", "escaped"})
    /\ [](pc \in {"exited", "escaped"} /\ (stdin.kind # "object" \/ ~RunsScript)
            => pc = "exited" /\ stdout = <<result>> /\ "success" \in DOMAIN result)

\* C19: every response is a mapping with a boolean success flag; a failure
\* has an error message and nothing besides it but the traceback, a success
\* has no error field
C19_ResponseShape ==
    \A k \in 1..Len(stdout) :
        "text" \notin DOMAIN stdout[k] =>
            /\ "success" \in DOMAIN stdout[k]
            /\ stdout[k].success \in BOOLEAN
            /\ ~stdout[k].success =>
                  /\ "error" \in DOMAIN stdout[k]
                  /\ DOMAIN stdout[k] \subseteq {"success", "error", "traceback"}
            /\ stdout[k].success => "error" \notin DOMAIN stdout[k]

\* A handler of the export helper has failed after its first steps, and a
\* response of failure was written
C19_Witness ==
    /\ pc = "exited"
    /\ helper = "export"
    /\ invoked = <<"generate_html_report">>
    /\ stdout = <<result>>
    /\ ~result.success
    /\ DOMAIN result = {"success", "error"}

----------------------------------------------------------------------------
(* Properties of the CSV round trip *)

\* str(value) of a cell
Str(cell) == IF cell.type = "nan" THEN "nan" ELSE cell.text

\* The export helper has answered an export_data request with a CSV file
AnsweredCsv == AnsweredExport("export_data") /\ result.format = "csv"

\* load_data of the file just written gives the table that was exported:
\* as many rows, the same columns, the same values as strings, and the shape
\* the export response reports
ReloadsAsExported ==
    LET frame == input_data.data.data
        loaded == load_csv(files, result.filepath)
    IN  /\ ~loaded.raised
        /\ Len(loaded.df.rows) = Len(frame.rows)
        /\ loaded.df.columns = frame.columns
        /\ \A r \in 1..Len(frame.rows) : \A c \in 1..Len(frame.columns) :
              Str(loaded.df.rows[r][c]) = Str(frame.rows[r][c])
        /\ result.rows = Len(loaded.df.rows)
        /\ result.columns = Len(loaded.df.columns)

\* C20: a table exported as CSV and loaded again with load_data has the same
\* number of rows, the same columns and the same values up to their types,
\* and the shape the export response reports
C20_CsvRoundTrip == AnsweredCsv => ReloadsAsExported

\* The table has a column, and no string in it is empty or reads as a number
PlainTable(frame) ==
    /\ frame.columns # <<>>
    /\ \A r \in 1..Len(frame.rows) : \A c \in 1..Len(frame.columns) :
          frame.rows[r][c].type = "str" =>
              frame.rows[r][c].text \notin DOMAIN Numeric \cup {""}

\* The part of C20 that holds: the round trip of a table with a column whose
\* strings are neither empty nor numerals
C20_CsvRoundTripOfPlainTables ==
    AnsweredCsv /\ PlainTable(input_data.data.data) => ReloadsAsExported

----------------------------------------------------------------------------
(* Properties of the registry over the life of a process *)

\* C21: a registry entry is never deleted: an identifier that a successful
\* train or load put in the registry, and every identifier of the registry,
\* is in the registry after every later operation, failed ones included.
C21_EntryNeverDeleted ==
    [][/\ DOMAIN model_manager.models \subseteq DOMAIN model_manager'.models
       /\ trained' \subseteq DOMAIN model_manager'.models]_vars

\* C21 witness: with m1 and m2 in the registry, a train for m1 has failed.
C21_Witness ==
    /\ {"m1", "m2"} \subseteq DOMAIN model_manager.models
    /\ input_data.action = "train"
    /\ Get(input_data.data, "model_id", "default_model") = "m1"
    /\ ~result.success

\* C22: every identifier that has a scaler, an encoder or metadata also has
\* a model: the key sets of scalers, encoders and metadata are subsets of the
\* key set of models.
C22_CompanionsHaveAModel ==
    /\ DOMAIN model_manager.scalers \subseteq DOMAIN model_manager.models
    /\ DOMAIN model_manager.encoders \subseteq DOMAIN model_manager.models
    /\ DOMAIN model_manager.metadata \subseteq DOMAIN model_manager.models

\* C22 witness: one identifier has a scaler, an encoder and metadata, and
\* another one has a model without a scaler.
C22_Witness ==
    /\ \E m \in DOMAIN model_manager.scalers :
        m \in DOMAIN model_manager.encoders /\ m \in DOMAIN model_manager.metadata
    /\ DOMAIN model_manager.models \ DOMAIN model_manager.scalers # {}

\* C23: a train or load that answers success=false leaves the registry
\* exactly as it was.
C23_FailureLeavesRegistry ==
    [][(input_data'.action \in {"train", "load"} /\ ~result'.success)
       => model_manager' = model_manager]_vars

\* C23 witness: with a model in the registry, a load of a file that cannot
\* be read, or a train whose fit raised, has failed for an identifier of its
\* own.
C23_Witness ==
    /\ DOMAIN model_manager.models # {}
    /\ input_data.action \in {"train", "load"}
    /\ "model_id" \in DOMAIN input_data.data
    /\ input_data.data.model_id \notin DOMAIN model_manager.models
    /\ ~result.success
    /\ result.error \in {LibraryError("fit"), LibraryError("pickle.load"),
                         <<"No such file or directory: ", "f1">>}

----------------------------------------------------------------------------
(* Properties of one invocation of the ML helper *)

\* The request the process answered: its action and its data
Asked(action) ==
    /\ helper = "ml"
    /\ pc = "exited"
    /\ Get(input_data, "action", "None") = action

AskedData == Get(input_data, "data", EmptyDict)

\* A predict, evaluate, explain or save request given through main with its
\* required fields present is answered 'Model not found'
NotFoundInOneInvocation ==
    \A action \in {"predict", "evaluate", "explain", "save"} :
        (Asked(action) /\ RequiredFields(action) \subseteq DOMAIN AskedData)
            => result = Failure(<<"Model not found: ", AskedData.model_id>>)

C25_RegistryEntriesHaveMetadata ==
    /\ DOMAIN model_manager.models \subseteq DOMAIN model_manager.metadata
    /\ \A m \in DOMAIN model_manager.models : Truthy(model_manager.metadata[m])
    /\ (input_data.action \in {"evaluate", "explain"} /\ ~result.success)
           => result.error # <<"'NoneType' object has no attribute 'get'">>

\* C25 witness: a load of a file that save wrote has put an identifier with
\* the saved metadata beside another identifier in the registry.
C25_Witness ==
    /\ input_data.action = "load"
    /\ result.success
    /\ Cardinality(DOMAIN model_manager.models) = 2
    /\ result.model_id \in DOMAIN model_manager.metadata
    /\ model_manager.metadata[result.model_id] = files[result.filepath].metadata

----------------------------------------------------------------------------
(* Properties of the effect sizes *)

\* The effect size each test reports as its own
OwnEffectSize ==
    [h \in {"ttest", "chi_square", "correlation", "mann_whitney"} |->
        IF h = "ttest" THEN "cohens_d"
        ELSE IF h = "chi_square" THEN "cramers_v"
        ELSE IF h = "correlation" THEN "r"
        ELSE "rank_biserial"]

\* C26 (as claimed): every successful response of the ttest, chi_square,
\* correlation and mann_whitney handlers carries an effect size of the test's
\* own type (cohens_d, cramers_v, r, rank_biserial), also when the test
\* statistic is exactly 0; the type is never 'none' / 'Not calculated'.
C26_EffectSizeOfOwnType ==
    \A h \in DOMAIN OwnEffectSize :
        (AnsweredTest /\ invoked = <<h>>)
            => /\ result.effect_size.type = OwnEffectSize[h]
               /\ result.effect_size.interpretation # "Not calculated"

\* What holds instead: the effect size is of the test's own type whenever
\* the statistic is not 0, and for ttest and correlation always.
C26_EffectSizeOfOwnTypeUnlessZero ==
    \A h \in DOMAIN OwnEffectSize :
        (AnsweredTest /\ invoked = <<h>>
         /\ (result.statistic # 0 \/ h \in {"ttest", "correlation"}))
            => /\ result.effect_size.type = OwnEffectSize[h]
               /\ result.effect_size.interpretation # "Not calculated"

----------------------------------------------------------------------------
(* Properties of the files a failed export leaves *)

\* A step of the export helper that answers success=false
FailedExportStep ==
    /\ helper = "export"
    /\ pc = "route"
    /\ pc' = "exited"
    /\ ~result'.success

\* C27 (as claimed): an export request that is answered with success=false
\* has created no file and no directory.
C27_FailedExportCreatesNothing ==
    [][FailedExportStep => DOMAIN files' = DOMAIN files]_vars

\* What holds instead: a failed export removes nothing and changes no file
\* that existed; a request that fails before its handler reaches os.makedirs
\* (no filepath, no data, an unknown type) creates nothing.
C27_FailedExportKeepsWhatExisted ==
    [][FailedExportStep =>
          /\ \A p \in DOMAIN files : p \in DOMAIN files' /\ files'[p] = files[p]
          /\ (invoked' = <<>> \/ "filepath" \notin DOMAIN Get(input_data, "data", EmptyDict))
                => files' = files]_vars

----------------------------------------------------------------------------
(* Properties of the analyze helper's responses *)

\* The process has answered an analyze request by serializing a table
AnsweredTable ==
    /\ Answered
    /\ helper = "analyze"
    /\ result.success
    /\ Requested \in {"load", "transform", "query", "execute"}
    /\ "shape" \in DOMAIN result.result
    /\ "data" \in DOMAIN result.result

\* The table the branch of the request hands to serialize_dataframe
Serialized ==
    LET loaded == load_data(Get(stdin.value, "source", "None"),
                            Get(stdin.value, "source_type", "None")).df
    IN  IF Requested = "load" THEN loaded
        ELSE IF Requested = "transform" THEN df_result
        ELSE IF Requested = "query"
        THEN execute_query(loaded, Get(stdin.value, "query", None)).df
        ELSE execute_code(loaded, Get(stdin.value, "code", "None")).value

\* C28: serialize_dataframe returns a preview of the first min(rows, 100)
\* rows in table order, sets truncated to true exactly when the table has
\* more than 100 rows, and always reports the full row and column counts in
\* shape, not the preview's.
C28_PreviewOfTheFirstRows ==
    AnsweredTable =>
        LET rows == Len(Serialized.rows)
            shown == IF rows < MaxPreviewRows THEN rows ELSE MaxPreviewRows
        IN  /\ Len(result.result.data) = shown
            /\ \A k \in 1..shown : result.result.data[k] = Serialized.rows[k]
            /\ result.result.truncated = (rows > MaxPreviewRows)
            /\ result.result.shape = [rows |-> rows, columns |-> Len(Serialized.columns)]

\* C28 witness: a table of 101 rows was answered with a preview of its first
\* 100 rows, marked truncated, and a shape of 101 rows.
C28_Witness ==
    /\ AnsweredTable
    /\ Len(Serialized.rows) = MaxPreviewRows + 1
    /\ Len(result.result.data) = MaxPreviewRows
    /\ result.result.truncated
    /\ result.result.shape.rows = MaxPreviewRows + 1

\* The process has answered an execute request whose script ran to its end
AnsweredScript ==
    /\ Answered
    /\ helper = "analyze"
    /\ Requested = "execute"
    /\ result.success

\* The table load_data gave the script as df
LoadedTable ==
    load_data(Get(stdin.value, "source", "None"),
              Get(stdin.value, "source_type", "None")).df

\* What main prints for a value execute_code returned
Output(value) ==
    IF "index" \in DOMAIN value THEN serialize_dataframe(value, MaxPreviewRows) ELSE value

\* C29: execute_code runs the script with the loaded table bound to 'df' and
\* 'result' bound to None, and returns the value the script left in 'result'
\* when it is not None, otherwise whatever the script left bound to 'df' (the
\* original table if the script did not rebind or change it).
C29_ResultElseDf ==
    AnsweredScript =>
        LET code == Get(stdin.value, "code", "None")
            first == [columns |-> LoadedTable.columns,
                      index |-> SubSeq(LoadedTable.index, 1, 1),
                      rows |-> SubSeq(LoadedTable.rows, 1, 1)]
            shape(t) == [rows |-> Len(t.rows), columns |-> Len(t.columns)]
        IN  /\ code = "result = df.shape" => result.result = shape(LoadedTable)
            /\ code = "df = df.head(1); result = df.shape" => result.result = shape(first)
            /\ code = "df = df.head(1)" => result.result = Output(first)
            /\ code \in {"pass", "print(df.shape)"} => result.result = Output(LoadedTable)

\* C29 witness: a script that rebound df and then bound result was answered
\* with the value of result; the shape of the table that df was rebound to.
C29_Witness ==
    /\ AnsweredScript
    /\ Get(stdin.value, "code", "None") = "df = df.head(1); result = df.shape"
    /\ Len(LoadedTable.rows) > 1
    /\ result.result = [rows |-> 1, columns |-> Len(LoadedTable.columns)]

\* transform_data was called in this process
Transforming == helper = "analyze" /\ invoked = <<"transform_data">>

\* C30: transform_data never changes the table it is given: after any list
\* of steps, whether it succeeds or fails, the input table is unchanged (the
\* steps work on a copy), and with an empty list of steps the result is
\* equal to the input table.
C30_InputTableUnchanged ==
    Transforming =>
        /\ df = LoadedTable
        /\ (pc = "exited" /\ result.success
            /\ Get(stdin.value, "transformations", <<>>) = <<>>)
               => /\ df_result = df
                  /\ result.result = serialize_dataframe(LoadedTable, MaxPreviewRows)

\* C30 witness: the second of two steps has failed after the first one gave
\* a table that differs from the input table, which is as it was loaded.
C30_Witness ==
    /\ Transforming
    /\ pc = "exited"
    /\ ~result.success
    /\ i = 2
    /\ df_result # df
    /\ df = LoadedTable

============================================================================
